---- MODULE Spec2Model ----
(***************************************************************************)
(* SecuriWatch: the deterministic ThreatAnalyzer, the AnomalyDetector and  *)
(* ThreatClassifier model lifecycle (train / detect / save / load) and the *)
(* PredictiveEngine feature layout, as state machines.                     *)
(*                                                                         *)
(* Timestamps are whole seconds counted from a midnight.  A fitted sklearn *)
(* object is represented by the number of the training run that fitted it. *)
(***************************************************************************)
EXTENDS Integers, Sequences, FiniteSets, TLC

\* ------------------------------------------------------------------------
\* Bounds of the model
\* ------------------------------------------------------------------------
MaxBatches == 3
MaxCalls == 2
MaxDamage == 1
MaxSpan == 46
MaxSnapshot == 1

MaxAdds == 1

MaxStamp == 5

MaxWindowEvents == 3

MaxReputationCalls == 4

MaxFindings == 4

MaxPredictions == 2

MaxTrainingRows == 30

MaxLoops == 2

MaxLines == 2

\* ------------------------------------------------------------------------
\* Input domain of the analyzer.  An event list is kept as its runs of
\* identical events: the run [ev |-> e, n |-> k] stands for k consecutive
\* list elements equal to e.
\* ------------------------------------------------------------------------
Ev(ts, ty, ip, user, sev) ==
    [timestamp |-> ts, event_type |-> ty, source_ip |-> ip,
     username |-> user, severity |-> sev]

Batches ==
    { [ev |-> Ev(0, "ssh_failed_login", "10.0.0.1", "admin", "medium"), n |-> 4],
      [ev |-> Ev(0, "ssh_failed_login", "10.0.0.1", "admin", "medium"), n |-> 16],
      [ev |-> Ev(600, "windows_failed_login", "10.0.0.1", "root", "medium"), n |-> 1],
      [ev |-> Ev(601, "failed_root_login", "10.0.0.1", "root", "high"), n |-> 1],
      [ev |-> Ev(4000, "ssh_failed_login", "10.0.0.2", "", "low"), n |-> 50],
      [ev |-> Ev(100, "sql_injection_attempt", "", "", "critical"), n |-> 1] }

\* ------------------------------------------------------------------------
\* Generic helpers
\* ------------------------------------------------------------------------
Min2(a, b) == IF a <= b THEN a ELSE b

SetMax(S) == CHOOSE x \in S : \A y \in S : y <= x

SetMin(S) == CHOOSE x \in S : \A y \in S : x <= y

RECURSIVE SetSum(_, _)
SetSum(S, f) ==
    IF S = {} THEN 0
    ELSE LET x == CHOOSE y \in S : TRUE IN f[x] + SetSum(S \ {x}, f)

\* Number of list elements in the runs idx of evs.
RECURSIVE CountRuns(_, _)
CountRuns(evs, idx) ==
    IF idx = {} THEN 0
    ELSE LET i == CHOOSE j \in idx : TRUE IN evs[i].n + CountRuns(evs, idx \ {i})

\* len(events)
EventCount(evs) == CountRuns(evs, DOMAIN evs)

\* Counter over the values key(e) of the events that satisfy a filter:
\* a function from the keys that occur to their number of occurrences.
CounterOf(evs, Key(_), Keep(_)) ==
    LET idx == {i \in 1..Len(evs) : Keep(evs[i].ev)}
    IN [k \in {Key(evs[i].ev) : i \in idx} |->
            CountRuns(evs, {i \in idx : Key(evs[i].ev) = k})]

\* Position of the first occurrence of each key (dict insertion order).
FirstIndex(evs, Key(_), Keep(_), k) ==
    SetMin({i \in 1..Len(evs) : Keep(evs[i].ev) /\ Key(evs[i].ev) = k})

\* max(counter.items(), key=count) and Counter.most_common(1): the key with
\* the largest count, the first inserted one among equals.
FirstMaxKey(evs, Key(_), Keep(_)) ==
    LET c == CounterOf(evs, Key, Keep)
        m == SetMax({c[k] : k \in DOMAIN c})
        best == {k \in DOMAIN c : c[k] = m}
    IN CHOOSE k \in best :
         \A j \in best : FirstIndex(evs, Key, Keep, k) <= FirstIndex(evs, Key, Keep, j)

\* ------------------------------------------------------------------------
\* ThreatAnalyzer (core/analyzer.py)
\* ------------------------------------------------------------------------
FailedAuthTypes ==
    {"ssh_failed_login", "windows_failed_login", "failed_root_login",
     "multiple_authentication_failures"}

KeySeverity(e) == e.severity
KeyIp(e) == e.source_ip
KeyUser(e) == e.username
KeyHour(e) == (e.timestamp \div 3600) % 24
KeyDay(e) == e.timestamp \div 86400
KeepAll(e) == TRUE
KeepIp(e) == e.source_ip # ""
KeepUser(e) == e.username # ""
KeepFailedAuth(e) == e.source_ip # "" /\ e.event_type \in FailedAuthTypes

\* The entry _detect_brute_force builds for one source IP.
BruteForceEntry(evs, ip) ==
    LET idx == {i \in 1..Len(evs) : KeepFailedAuth(evs[i].ev) /\ evs[i].ev.source_ip = ip}
        stamps == {evs[i].ev.timestamp : i \in idx}
        n == CountRuns(evs, idx)
    IN [source_ip |-> ip,
        attempt_count |-> n,
        time_span_seconds |-> SetMax(stamps) - SetMin(stamps),
        usernames_targeted |-> {evs[i].ev.username : i \in idx} \ {""},
        first_attempt |-> SetMin(stamps),
        last_attempt |-> SetMax(stamps),
        severity |-> IF n > 50 THEN "critical"
                     ELSE IF n > 20 THEN "critical" ELSE "high"]

\* Mutant: the threshold test is "more than 5".
BruteForceIpsStrict(evs) ==
    LET c == CounterOf(evs, KeyIp, KeepFailedAuth)
    IN {ip \in DOMAIN c :
          /\ c[ip] > 5
          /\ BruteForceEntry(evs, ip).time_span_seconds <= 600}

\* The source IPs _detect_brute_force flags: at least 5 failed-auth events,
\* first to last within 600 seconds.
BruteForceIps(evs) ==
    LET c == CounterOf(evs, KeyIp, KeepFailedAuth)
    IN {ip \in DOMAIN c :
          /\ c[ip] >= 5
          /\ BruteForceEntry(evs, ip).time_span_seconds <= 600}

\* sorted(..., key=attempt_count, reverse=True): stable, so equal counts keep
\* the order in which the IPs first appear in the input.
RECURSIVE SortAttacks(_, _)
SortAttacks(evs, ips) ==
    IF ips = {} THEN << >>
    ELSE LET c == CounterOf(evs, KeyIp, KeepFailedAuth)
             top == CHOOSE ip \in ips :
                      \A o \in ips :
                         \/ c[ip] > c[o]
                         \/ /\ c[ip] = c[o]
                            /\ FirstIndex(evs, KeyIp, KeepFailedAuth, ip)
                                 <= FirstIndex(evs, KeyIp, KeepFailedAuth, o)
         IN <<BruteForceEntry(evs, top)>> \o SortAttacks(evs, ips \ {top})

_detect_brute_force(evs) == SortAttacks(evs, BruteForceIps(evs))

_analyze_timeline(evs) ==
    IF EventCount(evs) = 0 THEN [present |-> FALSE, peak_hour |-> 0, peak_hour_events |-> 0,
                         peak_day |-> 0, peak_day_events |-> 0,
                         total_days_with_events |-> 0]
    ELSE LET hourly == CounterOf(evs, KeyHour, KeepAll)
             daily == CounterOf(evs, KeyDay, KeepAll)
             ph == FirstMaxKey(evs, KeyHour, KeepAll)
             pd == FirstMaxKey(evs, KeyDay, KeepAll)
         IN [present |-> TRUE, peak_hour |-> ph, peak_hour_events |-> hourly[ph],
             peak_day |-> pd, peak_day_events |-> daily[pd],
             total_days_with_events |-> Cardinality(DOMAIN daily)]

severity_scores(sev) ==
    CASE sev = "critical" -> 25
      [] sev = "high" -> 15
      [] sev = "medium" -> 5
      [] sev = "low" -> 1
      [] OTHER -> 0

VolumeBonus(event_count) ==
    IF event_count > 100 THEN 30
    ELSE IF event_count > 50 THEN 20
    ELSE IF event_count > 10 THEN 10 ELSE 0

SeverityPart(breakdown) ==
    SetSum(DOMAIN breakdown,
           [s \in DOMAIN breakdown |-> Min2(severity_scores(s) * breakdown[s], 40)])

BruteForcePart(brute_force_count) ==
    IF brute_force_count > 0 THEN Min2(brute_force_count * 10, 30) ELSE 0

\* Mutant: the final clamp to 100 is missing.
CalculateThreatScoreUnclamped(total_events, breakdown, brute_force) ==
    VolumeBonus(total_events) + SeverityPart(breakdown)
      + BruteForcePart(Len(brute_force))

_calculate_threat_score(total_events, breakdown, brute_force) ==
    Min2(VolumeBonus(total_events) + SeverityPart(breakdown)
           + BruteForcePart(Len(brute_force)), 100)


_generate_recommendations(a) ==
    LET bf == a.brute_force_attempts
        r1 == IF a.total_events > 100 THEN << <<"high_volume">> >> ELSE << >>
        r2 == IF bf # << >>
              THEN << <<"brute_force_detected">>, <<"change_ssh_port">> >>
                   \o [i \in 1..Min2(Len(bf), 3) |-> <<"block_ip", bf[i].source_ip>>]
              ELSE << >>
        r3 == IF "critical" \in DOMAIN a.severity_breakdown
                 /\ a.severity_breakdown["critical"] > 0
              THEN << <<"critical_events">> >> ELSE << >>
        r4 == IF DOMAIN a.top_source_ips # {}
                 /\ a.top_source_ips[a.top_ip] > 10
              THEN << <<"repeat_offender", a.top_ip>> >> ELSE << >>
        r5 == IF DOMAIN a.top_usernames # {}
                 /\ a.top_usernames[a.top_username] > 20
              THEN << <<"targeted_username", a.top_username>> >> ELSE << >>
        r6 == IF a.threat_score > 70 THEN << <<"level_critical">> >>
              ELSE IF a.threat_score > 40 THEN << <<"level_high">> >>
              ELSE IF a.threat_score > 20 THEN << <<"level_medium">> >>
              ELSE << >>
        r7 == IF a.timeline_analysis.peak_hour_events > 50
              THEN << <<"peak_hour">> >> ELSE << >>
    IN r1 \o r2 \o r3 \o r4 \o r5 \o r6 \o r7

\* ai_analysis as analyze_events initialises it ({}).
NoAi ==
    [present |-> FALSE, threat_level |-> "none", quick_anomalies |-> 0,
     alerts |-> << >>, error |-> FALSE]

\* Lines 40-72 of analyze_events: the part that runs before any model call.
DeterministicAnalysis(evs) ==
    LET breakdown == CounterOf(evs, KeySeverity, KeepAll)
        ips == CounterOf(evs, KeyIp, KeepIp)
        users == CounterOf(evs, KeyUser, KeepUser)
        bf == _detect_brute_force(evs)
        base == [total_events |-> EventCount(evs),
                 severity_breakdown |-> breakdown,
                 top_source_ips |-> ips,
                 top_ip |-> IF DOMAIN ips = {} THEN "" ELSE FirstMaxKey(evs, KeyIp, KeepIp),
                 top_usernames |-> users,
                 top_username |-> IF DOMAIN users = {} THEN ""
                                  ELSE FirstMaxKey(evs, KeyUser, KeepUser),
                 attack_patterns |-> << >>,
                 brute_force_attempts |-> bf,
                 timeline_analysis |-> _analyze_timeline(evs),
                 recommendations |-> << >>,
                 ai_analysis |-> NoAi,
                 threat_score |-> _calculate_threat_score(EventCount(evs), breakdown, bf),
                 ai_comprehensive |-> "absent",
                 analysis_type |-> "absent",
                 ai_error |-> FALSE]
    IN [base EXCEPT !.recommendations = _generate_recommendations(base)]

\* ------------------------------------------------------------------------
\* The model layer as the analyzer sees it (ai/ml_models.py).  What the
\* estimators compute is an input of the model: q and c say what each
\* model call did.
\* ------------------------------------------------------------------------
\* Mutant: a suspicious new IP is reported as critical.
FindingSeverityCriticalIp ==
    [unusual_time_pattern |-> "medium",
     unusual_activity_volume |-> "high",
     unusual_access_pattern |-> "medium",
     suspicious_new_ip |-> "critical",
     automated_behavior |-> "high",
     user_enumeration |-> "medium",
     system_volume_spike |-> "medium",
     severity_spike |-> "high"]

\* The 'severity' each anomalies.append of behavioral_analyzer.py gives the
\* finding of its 'type'.
FindingSeverity ==
    [unusual_time_pattern |-> "medium",
     unusual_activity_volume |-> "high",
     unusual_access_pattern |-> "medium",
     suspicious_new_ip |-> "high",
     automated_behavior |-> "high",
     user_enumeration |-> "medium",
     system_volume_spike |-> "medium",
     severity_spike |-> "high"]

\* Severities analyze_behavioral_anomalies gives its findings.
BehavioralSeverities == {FindingSeverity[t] : t \in DOMAIN FindingSeverity}

\* What the calls made by quick_analysis can do, given the detector state.
QuickOutcomes(trained) ==
    {[call |-> "raise", anomaly |-> "skipped", behavioral |-> "none"]}
    \cup
    [call : {"ok"},
     anomaly : IF trained THEN {"none", "low_conf", "high_conf"} ELSE {"skipped"},
     behavioral : {"raise", "none"} \cup BehavioralSeverities]
    \cup
    (IF trained
     THEN {[call |-> "ok", anomaly |-> "raise", behavioral |-> "none"]}
     ELSE {})

\* MLModelManager.quick_analysis on a non-empty event list.
quick_analysis(q) ==
    LET found == q.anomaly \in {"low_conf", "high_conf"}
        high_conf == q.anomaly = "high_conf"
        l1 == IF high_conf THEN "high" ELSE "low"
        a1 == IF high_conf THEN << <<"high_confidence_anomalies">> >> ELSE << >>
        critical_behavioral == q.behavioral = "critical"
    IN IF q.anomaly = "raise"
       THEN [present |-> TRUE, threat_level |-> "low", quick_anomalies |-> 0,
             alerts |-> << >>, error |-> TRUE]
       ELSE IF q.behavioral = "raise"
       THEN [present |-> TRUE, threat_level |-> l1,
             quick_anomalies |-> IF found THEN 1 ELSE 0,
             alerts |-> a1, error |-> TRUE]
       ELSE [present |-> TRUE,
             threat_level |-> IF critical_behavioral THEN "critical" ELSE l1,
             quick_anomalies |-> IF found THEN 1 ELSE 0,
             alerts |-> IF critical_behavioral
                        THEN a1 \o << <<"critical_behavioral_anomalies">> >>
                        ELSE a1,
             error |-> FALSE]

\* What the four analyses run by analyze_events_comprehensive can find.
ComprehensiveOutcomes ==
    {[call |-> "raise", anomaly_high |-> FALSE, class_high |-> FALSE,
      behavioral |-> "none", pred_alert |-> FALSE]}
    \cup
    [call : {"ok"}, anomaly_high : BOOLEAN, class_high : BOOLEAN,
     behavioral : {"none"} \cup BehavioralSeverities, pred_alert : BOOLEAN]

\* MLModelManager._generate_comprehensive_insights: the overall threat level.
_generate_comprehensive_insights(c) ==
    LET risk_factors ==
            (IF c.anomaly_high THEN 1 ELSE 0)
          + (IF c.class_high THEN 1 ELSE 0)
          + (IF c.behavioral = "critical" THEN 1 ELSE 0)
          + (IF c.pred_alert THEN 1 ELSE 0)
    IN IF risk_factors >= 3 THEN "critical"
       ELSE IF risk_factors >= 2 THEN "high"
       ELSE IF risk_factors >= 1 THEN "medium" ELSE "low"

\* insights.overall_threat_level of analyze_events_comprehensive's result;
\* the result is {} for an empty event list.
analyze_events_comprehensive(event_count, c) ==
    IF event_count = 0 THEN "absent" ELSE _generate_comprehensive_insights(c)

InsightRecommendations(level) ==
    IF level \in {"critical", "high"}
    THEN << <<"ai_security_review">>, <<"ai_incident_response">>, <<"ai_forensics">> >>
    ELSE IF level = "medium"
    THEN << <<"ai_enhanced_monitoring">>, <<"ai_review_config">>, <<"ai_brief_team">> >>
    ELSE IF level = "low" THEN << <<"ai_continue_monitoring">> >>
    ELSE << >>

\* ------------------------------------------------------------------------
\* The two public analysis entry points.  ai is the analyzer's view of the
\* model layer: enable_ai and ml_manager after __init__.
\* ------------------------------------------------------------------------
QuickBoost(level) ==
    IF level = "critical" THEN 20 ELSE IF level = "high" THEN 10 ELSE 0

\* Mutant: the except branch replaces the analysis by the error alone.
AiEnhanceDropsAnalysis(det, q) ==
    IF q.call = "raise" \/ q.anomaly = "raise" \/ q.behavioral = "raise"
    THEN [det EXCEPT !.ai_analysis = [NoAi EXCEPT !.present = TRUE, !.error = TRUE],
                     !.brute_force_attempts = << >>,
                     !.total_events = 0]
    ELSE LET ai == quick_analysis(q)
         IN [det EXCEPT
               !.ai_analysis = ai,
               !.threat_score = Min2(det.threat_score + QuickBoost(ai.threat_level), 100),
               !.recommendations = det.recommendations \o ai.alerts]

\* Lines 74-92 of analyze_events.
AiEnhance(det, q) ==
    IF q.call = "raise"
    THEN [det EXCEPT !.ai_analysis = [NoAi EXCEPT !.present = TRUE, !.error = TRUE]]
    ELSE LET ai == quick_analysis(q)
         IN [det EXCEPT
               !.ai_analysis = ai,
               !.threat_score = Min2(det.threat_score + QuickBoost(ai.threat_level), 100),
               !.recommendations = det.recommendations \o ai.alerts]

\* Mutant: the model layer is asked about an empty event list too.
AnalyzeEventsAlwaysAsks(det, enable_ai, q) ==
    IF enable_ai
    THEN [raised |-> FALSE, report |-> AiEnhance(det, q)]
    ELSE [raised |-> FALSE, report |-> det]

\* det is DeterministicAnalysis of the event list of the call.
analyze_events(det, enable_ai, q) ==
    IF enable_ai /\ det.total_events > 0
    THEN [raised |-> FALSE, report |-> AiEnhance(det, q)]
    ELSE [raised |-> FALSE, report |-> det]

ComprehensiveBoost(level) ==
    IF level = "critical" THEN 30
    ELSE IF level = "high" THEN 20
    ELSE IF level = "medium" THEN 10 ELSE 0

analyze_events_comprehensive_ai(det, enable_ai, c, q) ==
    LET trad == analyze_events(det, enable_ai, q)
    IN IF ~enable_ai THEN trad
       ELSE IF c.call = "raise"
       THEN [raised |-> FALSE,
             report |-> [trad.report EXCEPT !.ai_error = TRUE,
                                           !.analysis_type = "traditional_fallback"]]
       ELSE LET level == analyze_events_comprehensive(det.total_events, c)
            IN [raised |-> FALSE,
                report |-> [trad.report EXCEPT
                    !.ai_comprehensive = level,
                    !.analysis_type = "comprehensive_ai",
                    !.threat_score =
                        Min2(trad.report.threat_score + ComprehensiveBoost(level), 100),
                    !.recommendations =
                        trad.report.recommendations \o InsightRecommendations(level)]]


\* ------------------------------------------------------------------------
\* AnomalyDetector (ai/anomaly_detector.py): objects and persistence.
\* gen is the number of the call whose training built the object; gen 0 is
\* what __init__ sets: None, a new unfitted StandardScaler, an empty dict.
\* ------------------------------------------------------------------------
NoForest == [gen |-> 0, fitted |-> FALSE]

NoDbscan == [gen |-> 0, fitted_on |-> "none"]

\* The fields AnomalyDetector.__init__ sets before it calls _load_models.
NewDetector ==
    [is_trained |-> FALSE, scaler |-> 0, isolation_forest |-> NoForest,
     dbscan |-> NoDbscan, baseline_features |-> 0]

NoFile(obj) == [state |-> "absent", obj |-> obj]

OkFile(obj) == [state |-> "ok", obj |-> obj]

EmptyDir ==
    [forest |-> NoFile(NoForest), scaler |-> NoFile(0),
     baseline |-> NoFile(0), metadata |-> NoFile(FALSE)]

FileNames == {"forest", "scaler", "baseline", "metadata"}

\* _save_models: the dumps run in order inside one try; fail is the dump
\* (1 forest, 2 scaler, 3 baseline, 4 metadata) that raises, 0 if none does.
\* The truth test of an unfitted IsolationForest raises too (its __len__
\* reads estimators_).  DBSCAN is not dumped.
_save_models(a, d, fail) ==
    LET has_forest == a.isolation_forest.gen # 0
        stop1 == has_forest /\ (~a.isolation_forest.fitted \/ fail = 1)
        d1 == IF has_forest THEN [d EXCEPT !.forest = OkFile(a.isolation_forest)] ELSE d
        d2 == [d1 EXCEPT !.scaler = OkFile(a.scaler)]
        has_baseline == a.baseline_features # 0
        d3 == IF has_baseline THEN [d2 EXCEPT !.baseline = OkFile(a.baseline_features)]
              ELSE d2
        d4 == [d3 EXCEPT !.metadata = OkFile(a.is_trained)]
    IN IF stop1 THEN d
       ELSE IF fail = 2 THEN d1
       ELSE IF has_baseline /\ fail = 3 THEN d2
       ELSE IF fail = 4 THEN d3
       ELSE d4

\* Whether that run of _save_models wrote every file.
SaveCompleted(a, fail) ==
    /\ a.isolation_forest.gen # 0 => (a.isolation_forest.fitted /\ fail # 1)
    /\ fail # 2
    /\ a.baseline_features # 0 => fail # 3
    /\ fail # 4

\* _load_models on the fields of NewDetector: each file that exists is
\* loaded in turn; an unreadable file raises, which ends the loading and
\* sets is_trained to False.
_load_models(d) ==
    LET a0 == NewDetector
        a1 == IF d.forest.state = "ok"
              THEN [a0 EXCEPT !.isolation_forest = d.forest.obj] ELSE a0
        a2 == IF d.scaler.state = "ok" THEN [a1 EXCEPT !.scaler = d.scaler.obj] ELSE a1
        a3 == IF d.baseline.state = "ok"
              THEN [a2 EXCEPT !.baseline_features = d.baseline.obj] ELSE a2
        a4 == IF d.metadata.state = "ok"
              THEN [a3 EXCEPT !.is_trained = d.metadata.obj] ELSE a3
    IN IF d.forest.state = "corrupt" THEN [a0 EXCEPT !.is_trained = FALSE]
       ELSE IF d.scaler.state = "corrupt" THEN [a1 EXCEPT !.is_trained = FALSE]
       ELSE IF d.baseline.state = "corrupt" THEN [a2 EXCEPT !.is_trained = FALSE]
       ELSE IF d.metadata.state = "corrupt" THEN [a3 EXCEPT !.is_trained = FALSE]
       ELSE a4

\* The event history in the database, as far as training looks at it:
\* how many events get_recent_events returns and whether any has a source IP.
Histories ==
    { [count |-> 99, with_ip |-> TRUE],
      [count |-> 100, with_ip |-> FALSE],
      [count |-> 200, with_ip |-> TRUE] }

\* ------------------------------------------------------------------------
\* ThreatClassifier (ai/threat_classifier.py): the trained objects
\* ------------------------------------------------------------------------
NewClassifier ==
    [is_trained |-> FALSE, threat_classifier |-> NoForest,
     severity_classifier |-> NoForest, feature_scaler |-> 0, label_encoders |-> 0]

\* How far train_classifiers gets: the step that returns False or raises.
ClassifierOutcomes ==
    {"split_raises", "threat_fit_raises", "severity_fit_raises", "ok"}

\* train_classifiers as call number g on the fields c, with history h.
train_classifiers(c, h, g, outcome) ==
    LET c1 == [c EXCEPT !.label_encoders = g]
        c2 == [c1 EXCEPT !.feature_scaler = g]
        c3 == [c2 EXCEPT !.threat_classifier = [gen |-> g, fitted |-> FALSE]]
        c4 == [c3 EXCEPT !.threat_classifier = [gen |-> g, fitted |-> TRUE],
                         !.severity_classifier = [gen |-> g, fitted |-> FALSE]]
        c5 == [c4 EXCEPT !.severity_classifier = [gen |-> g, fitted |-> TRUE],
                         !.is_trained = TRUE]
    IN IF h.count < 200 THEN [value |-> "false", fields |-> c]
       ELSE IF outcome = "split_raises" THEN [value |-> "raised", fields |-> c1]
       ELSE IF outcome = "threat_fit_raises" THEN [value |-> "raised", fields |-> c3]
       ELSE IF outcome = "severity_fit_raises" THEN [value |-> "raised", fields |-> c4]
       ELSE [value |-> "true", fields |-> c5]

\* ------------------------------------------------------------------------
\* PredictiveEngine (ai/predictive_engine.py): the columns of the feature
\* frames.  A column f'{series}_lag_{n}' is [name, kind |-> "lag", n], a
\* column f'{series}_rolling_{n}' is [name, kind |-> "rolling", n].
\* ------------------------------------------------------------------------
Col(name, kind, n) == [name |-> name, kind |-> kind, n |-> n]

Plain(name) == Col(name, "plain", 0)

\* The keys of the dict _calculate_window_features builds, in order.
WindowColumns ==
    << Plain("timestamp"), Plain("hour"), Plain("day_of_week"),
       Plain("is_weekend"), Plain("is_business_hours"), Plain("is_night"),
       Plain("total_events"), Plain("unique_ips"), Plain("critical_events"),
       Plain("high_events"), Plain("medium_events"), Plain("low_events"),
       Plain("severity_score"), Plain("event_type_diversity"),
       Plain("ip_diversity") >>

\* feature_columns as both _prepare_prediction_training_data and
\* _prepare_prediction_features start it.
BaseColumns ==
    << Plain("hour"), Plain("day_of_week"), Plain("is_weekend"),
       Plain("is_business_hours"), Plain("is_night"), Plain("total_events"),
       Plain("unique_ips"), Plain("critical_events"), Plain("high_events"),
       Plain("medium_events"), Plain("low_events"),
       Plain("event_type_diversity"), Plain("ip_diversity") >>

Lags == <<1, 2, 3, 6, 12, 24>>

RollingWindows == <<3, 6, 12, 24>>

\* The two columns a lag or a rolling window adds.
PairOf(kind, n) ==
    << Col("total_events", kind, n), Col("severity_score", kind, n) >>

RECURSIVE Pairs(_, _)
Pairs(kind, ns) ==
    IF ns = << >> THEN << >>
    ELSE PairOf(kind, Head(ns)) \o Pairs(kind, Tail(ns))

\* The frame prepare_time_series_features returns: one row per hour from
\* the first event to the last, none for an empty list.
prepare_time_series_features(h) ==
    [rows |-> IF h.count = 0 THEN 0 ELSE h.span + 1, columns |-> WindowColumns]

LagGoesIn(rows, lag) == rows > lag

\* The training matrix: its columns and its number of samples.
_prepare_prediction_training_data(frame) ==
    LET used == SelectSeq(Lags, LAMBDA lag : LagGoesIn(frame.rows, lag))
        feature_columns ==
            BaseColumns \o Pairs("lag", used) \o Pairs("rolling", RollingWindows)
        nan_rows ==
            SetMax({RollingWindows[Len(RollingWindows)] - 1}
                   \cup {used[i] : i \in 1..Len(used)})
        kept == IF frame.rows > nan_rows THEN frame.rows - nan_rows ELSE 0
    IN [columns |-> feature_columns,
        samples |-> IF kept < 20 THEN 0 ELSE kept - 1]

\* The fields PredictiveEngine.__init__ sets before it calls _load_models.
\* A fitted object is the column list of the matrix it was fitted on.
NewEngine ==
    [is_trained |-> FALSE, feature_scaler |-> << >>,
     threat_volume_model |-> << >>, severity_trend_model |-> << >>]

\* _save_models of the engine: the dumps in the order of the code; fail = 0
\* writes them all, fail = k raises at the k-th dump, and the except branch
\* leaves the directory d with the dumps made before it.
_save_engine(e, d, fail) ==
    LET done(k) == fail = 0 \/ k < fail
    IN [threat_volume_model |->
            IF done(1) THEN e.threat_volume_model ELSE d.threat_volume_model,
        severity_trend_model |->
            IF done(2) THEN e.severity_trend_model ELSE d.severity_trend_model,
        feature_scaler |-> IF done(3) THEN e.feature_scaler ELSE d.feature_scaler,
        is_trained |-> IF done(4) THEN e.is_trained ELSE d.is_trained]

\* train_prediction_models on the history h: the value it returns and the
\* fields after it.
train_prediction_models(e, h) ==
    LET frame == prepare_time_series_features(h)
        data == _prepare_prediction_training_data(frame)
    IN IF h.count < 100 \/ frame.rows < 24 \/ data.samples < 20
       THEN [value |-> FALSE, fields |-> e]
       ELSE [value |-> TRUE,
             fields |-> [is_trained |-> TRUE,
                         feature_scaler |-> data.columns,
                         threat_volume_model |-> data.columns,
                         severity_trend_model |-> data.columns]]

IsLagOrRolling(col) == col.kind \in {"lag", "rolling"}

\* The columns of the row _prepare_prediction_features returns.
_prepare_prediction_features(frame) ==
    BaseColumns \o SelectSeq(frame.columns, IsLagOrRolling)

NoForecast ==
    [value |-> "none", hours_ahead |-> 0, vector |-> << >>, fit |-> << >>]

\* predict_threat_trends: the value it returns (or that it raises), the row
\* it hands to feature_scaler.transform and the columns of the fit, and the
\* fields after it.  transform raises on a row of another length.
predict_threat_trends(e, h, recent, hours_ahead) ==
    LET t == IF e.is_trained THEN [value |-> TRUE, fields |-> e]
             ELSE train_prediction_models(e, h)
        e1 == t.fields
        frame == prepare_time_series_features(recent)
        row == _prepare_prediction_features(frame)
        out(v, x) == [value |-> v, hours_ahead |-> hours_ahead, vector |-> x,
                      fit |-> e1.feature_scaler]
        ret(o) == [out |-> o, fields |-> e1, fitted |-> ~e.is_trained /\ t.value]
    IN IF ~t.value THEN ret(out("empty", << >>))
       ELSE IF frame.rows = 0 THEN ret(out("empty", << >>))
       ELSE IF hours_ahead = 0 THEN ret(out("forecast", << >>))
       ELSE IF Len(row) # Len(e1.feature_scaler) THEN ret(out("raised", row))
       ELSE ret(out("forecast", row))

\* Event histories of the engine: the number of events of the training
\* window and the hours from its first event to its last, and the same for
\* the last 48 hours.
EngineHistories ==
    { [count |-> c, span |-> sp, recent |-> r] :
        c \in {99, 120}, sp \in (MaxSpan - 4)..MaxSpan,
        r \in { [count |-> 0, span |-> 0], [count |-> 5, span |-> 0],
                [count |-> 60, span |-> 30] } }

\* ------------------------------------------------------------------------
\* The time windows of prepare_time_series_features.  Timestamps count half
\* hours; an event here is [timestamp, severity].
\* ------------------------------------------------------------------------
\* timedelta(hours=window_hours) with window_hours = 1
WindowWidth == 2

SeverityWeights(sev) ==
    CASE sev = "critical" -> 4 [] sev = "high" -> 3 [] sev = "medium" -> 2
      [] sev = "low" -> 1 [] OTHER -> 0

RECURSIVE SeverityScore(_)
SeverityScore(evs) ==
    IF evs = << >> THEN 0
    ELSE SeverityWeights(Head(evs).severity) + SeverityScore(Tail(evs))

SeverityCount(evs, sev) == Len(SelectSeq(evs, LAMBDA e : e.severity = sev))

\* _calculate_window_features: the row of the window that starts at
\* window_start, from the events in it.
_calculate_window_features(window_events, window_start) ==
    [timestamp |-> window_start,
     total_events |-> Len(window_events),
     critical_events |-> SeverityCount(window_events, "critical"),
     high_events |-> SeverityCount(window_events, "high"),
     medium_events |-> SeverityCount(window_events, "medium"),
     low_events |-> SeverityCount(window_events, "low"),
     severity_score |-> SeverityScore(window_events)]

WindowEvents(evs, current_time) ==
    SelectSeq(evs, LAMBDA e : /\ e.timestamp >= current_time
                              /\ e.timestamp < current_time + WindowWidth)

\* Mutant: the loop stops before a window that starts at end_time.
RECURSIVE WindowLoopStrict(_, _, _)
WindowLoopStrict(evs, current_time, end_time) ==
    IF current_time < end_time
    THEN <<_calculate_window_features(WindowEvents(evs, current_time),
                                      current_time)>>
         \o WindowLoopStrict(evs, current_time + WindowWidth, end_time)
    ELSE << >>

\* The loop of lines 72-86.
RECURSIVE WindowLoop(_, _, _)
WindowLoop(evs, current_time, end_time) ==
    IF current_time <= end_time
    THEN <<_calculate_window_features(WindowEvents(evs, current_time),
                                      current_time)>>
         \o WindowLoop(evs, current_time + WindowWidth, end_time)
    ELSE << >>

\* The rows of the frame prepare_time_series_features returns for evs.
time_windows(evs) ==
    IF evs = << >> THEN << >>
    ELSE LET stamps == {evs[i].timestamp : i \in 1..Len(evs)}
         IN WindowLoop(evs, SetMin(stamps), SetMax(stamps))

\* ------------------------------------------------------------------------
\* LogPatternMatcher (core/patterns.py).  A log line is a sequence of atoms:
\* the pieces of text the rules tell apart, one blank between neighbours.
\* A regex is the sequence of its elements: a literal atom, an alternation
\* of atoms, a named group, or ".*".  A name is the sequence of its words.
\* ------------------------------------------------------------------------
Lit(a) == [kind |-> "lit", atoms |-> {a}, group |-> "", class |-> ""]

Alt(S) == [kind |-> "alt", atoms |-> S, group |-> "", class |-> ""]

Grp(g, c) == [kind |-> "group", atoms |-> {}, group |-> g, class |-> c]

Gap == [kind |-> "gap", atoms |-> {}, group |-> "", class |-> ""]

\* str.lower() and re.IGNORECASE on the atoms and words that have capitals.
Lower(a) ==
    CASE a \in {"Failed", "FAILED"} -> "failed"
      [] a = "Invalid" -> "invalid"
      [] a = "DENIED" -> "denied"
      [] a = "DROP" -> "drop"
      [] a = "SSH" -> "ssh"
      [] a = "Login" -> "login"
      [] a = "User" -> "user"
      [] a = "Windows" -> "windows"
      [] a = "Rapid" -> "rapid"
      [] a = "Logins" -> "logins"
      [] a = "SQL" -> "sql"
      [] a = "Injection" -> "injection"
      [] a = "Attempt" -> "attempt"
      [] a = "Privilege" -> "privilege"
      [] a = "Escalation" -> "escalation"
      [] a = "Port" -> "port"
      [] a = "Scanning" -> "scanning"
      [] a = "Suspicious" -> "suspicious"
      [] a = "File" -> "file"
      [] a = "Access" -> "access"
      [] a = "Command" -> "command"
      [] a = "Directory" -> "directory"
      [] a = "Traversal" -> "traversal"
      [] a = "Root" -> "root"
      [] a = "Multiple" -> "multiple"
      [] a = "Authentication" -> "authentication"
      [] a = "Failures" -> "failures"
      [] a = "Custom" -> "custom"
      [] a = "Test" -> "test"
      [] a = "Pattern" -> "pattern"
      [] a = "CUSTOM_THREAT" -> "custom_threat"
      [] a = "Normal" -> "normal"
      [] OTHER -> a

\* The atoms \d+\.\d+\.\d+\.\d+ and \d+ match.
IpAtoms == {"192.168.1.100", "192.168.1.200", "192.168.1.50", "10.0.0.1"}

DigitAtoms == {"22", "3"}

InClass(a, c) ==
    CASE c = "ip" -> a \in IpAtoms
      [] c = "digits" -> a \in DigitAtoms
      [] OTHER -> TRUE

NoMatch == [ok |-> FALSE, groupdict |-> << >>]

\* The match of the elements k.. of regex at atom i of line, as the
\* backtracking of re finds it: ".*" takes as many atoms as it can.
RECURSIVE MatchFrom(_, _, _, _, _)
RECURSIVE GapFrom(_, _, _, _, _, _)
MatchFrom(regex, k, line, i, caps) ==
    IF k > Len(regex) THEN [ok |-> TRUE, groupdict |-> caps]
    ELSE LET e == regex[k]
         IN IF e.kind = "gap"
            THEN GapFrom(regex, k, line, i, caps, Len(line) + 1 - i)
            ELSE IF i > Len(line) THEN NoMatch
            ELSE IF e.kind = "group"
            THEN IF InClass(line[i], e.class)
                 THEN MatchFrom(regex, k + 1, line, i + 1,
                                [caps EXCEPT ![e.group] = line[i]])
                 ELSE NoMatch
            ELSE IF Lower(line[i]) \in {Lower(a) : a \in e.atoms}
                 THEN MatchFrom(regex, k + 1, line, i + 1, caps)
                 ELSE NoMatch

GapFrom(regex, k, line, i, caps, skip) ==
    IF skip < 0 THEN NoMatch
    ELSE LET r == MatchFrom(regex, k + 1, line, i + skip, caps)
         IN IF r.ok THEN r ELSE GapFrom(regex, k, line, i, caps, skip - 1)

GroupNames(regex) ==
    {regex[k].group : k \in {j \in 1..Len(regex) : regex[j].kind = "group"}}

\* re.search(regex, line, re.IGNORECASE): the leftmost match.
RECURSIVE SearchFrom(_, _, _)
SearchFrom(regex, line, start) ==
    IF start > Len(line) THEN NoMatch
    ELSE LET r == MatchFrom(regex, 1, line, start,
                            [g \in GroupNames(regex) |-> ""])
         IN IF r.ok THEN r ELSE SearchFrom(regex, line, start + 1)

re_search(regex, line) == SearchFrom(regex, line, 1)

ThreatPattern(name, regex, severity) ==
    [name |-> name, regex_pattern |-> regex, severity |-> severity,
     enabled |-> TRUE]

IpThenAny(S) == <<Grp("ip", "ip"), Gap, Alt(S)>>

\* The rules _initialize_patterns returns, in its order.
_initialize_patterns ==
    << ThreatPattern(<<"SSH", "Failed", "Login">>,
           <<Lit("Failed"), Lit("password"), Lit("for"), Grp("username", "word"),
             Lit("from"), Grp("ip", "ip")>>, "medium"),
       ThreatPattern(<<"SSH", "Invalid", "User">>,
           <<Lit("Invalid"), Lit("user"), Grp("username", "word"), Lit("from"),
             Grp("ip", "ip")>>, "high"),
       ThreatPattern(<<"Windows", "Failed", "Login">>,
           <<Lit("Logon Type:"), Grp("logon_type", "digits"), Gap,
             Lit("Source Network Address:"), Grp("ip", "ip"), Gap,
             Lit("Account Name:"), Grp("username", "word")>>, "medium"),
       ThreatPattern(<<"Rapid", "Failed", "Logins">>,
           <<Lit("authentication failure"), Gap, Lit("user="),
             Grp("username", "word")>>, "high"),
       ThreatPattern(<<"SQL", "Injection", "Attempt">>,
           IpThenAny({"union", "select", "insert", "delete", "drop", "exec"})
               \o <<Gap, Alt({"'", "--", ";"})>>, "critical"),
       ThreatPattern(<<"Privilege", "Escalation">>,
           <<Grp("username", "word"), Gap, Alt({"sudo", "su", "admin", "root"}),
             Gap, Alt({"FAILED", "denied"})>>, "high"),
       ThreatPattern(<<"Port", "Scanning">>,
           IpThenAny({"connection refused", "timeout", "unreachable"}), "medium"),
       ThreatPattern(<<"Suspicious", "File", "Access">>,
           <<Grp("username", "word"), Gap,
             Alt({"/etc/passwd", "/etc/shadow", "/etc/hosts", ".ssh/"})>>, "high"),
       ThreatPattern(<<"Command", "Injection">>,
           IpThenAny({"|", ";", "backquote", "$(", "&&"}), "critical"),
       ThreatPattern(<<"Directory", "Traversal">>,
           IpThenAny({"../", "..\\", "%2e%2e"}), "high"),
       ThreatPattern(<<"Failed", "Root", "Login">>,
           <<Lit("Failed"), Lit("password"), Lit("for"), Lit("root"), Lit("from"),
             Grp("ip", "ip")>>, "critical"),
       ThreatPattern(<<"Multiple", "Authentication", "Failures">>,
           <<Lit("authentication failure"), Gap, Lit("rhost="),
             Grp("ip", "ip")>>, "high") >>

\* dict.get(group, ''): the capture, '' for a regex without that group.
GroupOr(groupdict, g) == IF g \in DOMAIN groupdict THEN groupdict[g] ELSE ""

\* pattern.name.lower().replace(' ', '_'), as the words that '_' joins.
EventType(name) == [i \in 1..Len(name) |-> Lower(name[i])]

\* The SecurityEvent match_patterns builds for rule number i.
PatternEvent(pattern, i, m) ==
    [event_type |-> EventType(pattern.name),
     source_ip |-> GroupOr(m.groupdict, "ip"),
     username |-> GroupOr(m.groupdict, "username"),
     severity |-> pattern.severity,
     rule |-> i]

\* Mutant: the enabled flag is not looked at.
RECURSIVE MatchPatternsAll(_, _, _)
MatchPatternsAll(patterns, line, i) ==
    IF i > Len(patterns) THEN << >>
    ELSE LET m == re_search(patterns[i].regex_pattern, line)
         IN (IF m.ok THEN <<PatternEvent(patterns[i], i, m)>> ELSE << >>)
            \o MatchPatternsAll(patterns, line, i + 1)

\* match_patterns: the loop over self.patterns from rule number i on.
RECURSIVE match_patterns(_, _, _)
match_patterns(patterns, line, i) ==
    IF i > Len(patterns) THEN << >>
    ELSE LET m == IF patterns[i].enabled
                  THEN re_search(patterns[i].regex_pattern, line)
                  ELSE NoMatch
         IN (IF m.ok THEN <<PatternEvent(patterns[i], i, m)>> ELSE << >>)
            \o match_patterns(patterns, line, i + 1)

add_custom_pattern(patterns, pattern) == Append(patterns, pattern)

remove_pattern(patterns, name) ==
    SelectSeq(patterns, LAMBDA q : q.name # name)

\* The first rule with that name, 0 if there is none.
FirstNamed(patterns, name) ==
    LET idx == {i \in 1..Len(patterns) : patterns[i].name = name}
    IN IF idx = {} THEN 0 ELSE SetMin(idx)

SetEnabled(patterns, name, flag) ==
    LET i == FirstNamed(patterns, name)
    IN IF i = 0 THEN patterns ELSE [patterns EXCEPT ![i].enabled = flag]

enable_pattern(patterns, name) == SetEnabled(patterns, name, TRUE)

disable_pattern(patterns, name) == SetEnabled(patterns, name, FALSE)

\* Input domain of the matcher.
LogLines ==
    { <<"Failed", "password", "for", "admin", "from", "192.168.1.100", "port",
        "22", "ssh2">>,
      <<"failed", "password", "for", "root", "from", "10.0.0.1">>,
      <<"Invalid", "user", "hacker", "from", "10.0.0.1", "port", "22">>,
      <<"Normal", "system", "startup", "message">>,
      <<"CUSTOM_THREAT", "from", "192.168.1.200">>,
      <<"bob", "sudo", "DENIED">>,
      <<"192.168.1.50", "GET", "/search?q=", "'", ";", "DROP", "TABLE", "users",
        ";", "--">> }

CustomPatterns ==
    { ThreatPattern(<<"Custom", "Test", "Pattern">>,
          <<Lit("CUSTOM_THREAT"), Lit("from"), Grp("ip", "ip")>>, "high"),
      ThreatPattern(<<"SSH", "Failed", "Login">>,
          <<Lit("password"), Lit("for"), Grp("username", "word")>>, "low") }

PatternNames ==
    { <<"SSH", "Failed", "Login">>, <<"Failed", "Root", "Login">>,
      <<"Custom", "Test", "Pattern">> }

\* ------------------------------------------------------------------------
\* BehavioralAnalyzer (ai/behavioral_analyzer.py).  A baseline is kept as
\* the event_count of its baseline_period; the statistics it holds are not
\* modelled, so what the comparisons against a baseline find is an input.
\* ------------------------------------------------------------------------
BehaviorBatches ==
    { [ev |-> Ev(0, "ssh_failed_login", "10.0.0.1", "admin", "critical"), n |-> 4],
      [ev |-> Ev(30, "ssh_failed_login", "10.0.0.1", "admin", "medium"), n |-> 15],
      [ev |-> Ev(7200, "port_scan", "10.0.0.2", "", "low"), n |-> 50],
      [ev |-> Ev(7300, "windows_failed_login", "10.0.0.3", "root", "medium"), n |-> 9] }

\* The fields BehavioralAnalyzer.__init__ sets before _initialize_baselines.
NoSystemBaseline == [present |-> FALSE, event_count |-> 0]

NewBaselines ==
    [user_baselines |-> << >>, ip_baselines |-> << >>,
     system_baseline |-> NoSystemBaseline]

\* counter restricted to the keys with at least least events, each mapped to
\* the baseline _calculate_user_baseline / _calculate_ip_baseline builds.
BaselinesFrom(counter, least) ==
    [k \in {x \in DOMAIN counter : counter[x] >= least} |->
        [event_count |-> counter[k]]]

\* dict item assignment for every key of new: the other keys of old stay.
Assigned(old, new) == new @@ old

UserCounts(evs) == CounterOf(evs, KeyUser, KeepUser)

IpCounts(evs) == CounterOf(evs, KeyIp, KeepIp)

_build_user_baselines(b, evs) ==
    [b EXCEPT !.user_baselines = Assigned(@, BaselinesFrom(UserCounts(evs), 10))]

_build_ip_baselines(b, evs) ==
    [b EXCEPT !.ip_baselines = Assigned(@, BaselinesFrom(IpCounts(evs), 5))]

_build_system_baseline(b, evs) ==
    [b EXCEPT !.system_baseline =
                  [present |-> TRUE, event_count |-> EventCount(evs)]]

\* _initialize_baselines on the history snapshot evs.
_initialize_baselines(b, evs) ==
    IF EventCount(evs) < 50 THEN b
    ELSE _build_system_baseline(
             _build_ip_baselines(_build_user_baselines(b, evs), evs), evs)

\* The events of source IP ip in evs.
EventsOfIp(evs, ip) == SelectSeq(evs, LAMBDA r : r.ev.source_ip = ip)

_is_suspicious_new_ip(evs) ==
    LET n == EventCount(evs)
        stamps == {evs[i].ev.timestamp : i \in 1..Len(evs)}
        usernames == {evs[i].ev.username : i \in 1..Len(evs)} \ {""}
        critical_count ==
            CountRuns(evs, {i \in 1..Len(evs) : evs[i].ev.severity = "critical"})
    IN IF n < 3 THEN FALSE
       ELSE \/ SetMax(stamps) - SetMin(stamps) < 60 /\ n > 10
            \/ Cardinality(usernames) > 5
            \/ 2 * critical_count > n

\* The source IPs of the batch for which _analyze_ip_anomalies emits a
\* suspicious_new_ip finding.
SuspiciousNewIps(b, evs) ==
    {ip \in DOMAIN IpCounts(evs) :
        /\ ip \notin DOMAIN b.ip_baselines
        /\ IpCounts(evs)[ip] >= 5
        /\ _is_suspicious_new_ip(EventsOfIp(evs, ip))}

\* What the comparisons against existing baselines can give: no finding,
\* or findings about a user, a source IP or the system that has a baseline.
BaselineFindings(b, evs) ==
    {"none"}
    \cup (IF DOMAIN UserCounts(evs) \cap DOMAIN b.user_baselines # {}
          THEN {"user"} ELSE {})
    \cup (IF DOMAIN IpCounts(evs) \cap DOMAIN b.ip_baselines # {}
          THEN {"ip"} ELSE {})
    \cup (IF b.system_baseline.present THEN {"system"} ELSE {})

\* The finding types each comparison against a baseline can append.
BaselineFindingTypes(f) ==
    IF f = "user"
    THEN {"unusual_time_pattern", "unusual_activity_volume",
          "unusual_access_pattern"}
    ELSE IF f = "ip" THEN {"automated_behavior", "user_enumeration"}
    ELSE IF f = "system" THEN {"system_volume_spike", "severity_spike"}
    ELSE {}

\* The sets of finding types a call with outcome f can have appended.
FindingTypeChoices(f) ==
    IF f = "none" THEN {{}} ELSE SUBSET BaselineFindingTypes(f) \ {{}}

\* The findings of a call: the types the baselines gave, and
\* suspicious_new_ip when an IP without baseline was flagged.
BehavioralFindings(flagged, types) ==
    {[type |-> t, severity |-> FindingSeverity[t]] :
        t \in types \cup (IF flagged # {} THEN {"suspicious_new_ip"} ELSE {})}

\* The baselines after analyze_behavioral_anomalies on the batch evs:
\* _analyze_user_anomalies and _analyze_ip_anomalies give an entity without
\* baseline one, built from the batch, when the batch has enough events.
BaselinesAfterAnalysis(b, evs) ==
    LET newUsers == [u \in DOMAIN UserCounts(evs) \ DOMAIN b.user_baselines
                        |-> UserCounts(evs)[u]]
        newIps == [i \in DOMAIN IpCounts(evs) \ DOMAIN b.ip_baselines
                        |-> IpCounts(evs)[i]]
    IN [b EXCEPT !.user_baselines = Assigned(@, BaselinesFrom(newUsers, 10)),
                 !.ip_baselines = Assigned(@, BaselinesFrom(newIps, 5))]

\* analyze_behavioral_anomalies: the findings and the baselines after it.
analyze_behavioral_anomalies(b, evs, f) ==
    [suspicious_new_ip |-> SuspiciousNewIps(b, evs),
     from_baselines |-> f,
     baselines |-> BaselinesAfterAnalysis(b, evs)]

\* ------------------------------------------------------------------------
\* State
\* ------------------------------------------------------------------------
VARIABLES
    events,      \* the event list handed to the analyzer
    nBatches,    \* how many runs of events it was built from
    aiState,     \* model layer: "disabled", "init_failed", "untrained", "trained"
    phase,       \* "input" while the list is built, "done" after the call
    entry,       \* which entry point was called
    result       \* [raised, report] of the call

analyzerVars == <<events, nBatches, aiState, phase, entry, result>>

VARIABLES
    ad,          \* the AnomalyDetector instance: is_trained and the objects
    disk,        \* the files of its model directory
    db,          \* the event history in the database
    calls,       \* number of train / detect / train_classifiers calls so far
    damage,      \* number of files lost or damaged so far
    thr,         \* per thread: the call it is in and where it stands
    pre,         \* per thread: ad when its current or last training began
    fresh,       \* ad is as __init__ left it: no call yet on this instance
    origin,      \* the training whose complete artifacts ad was loaded from, or 0
    savedGen,    \* the training whose artifacts the directory holds complete, or 0
    tc,          \* the ThreatClassifier instance
    tcPre,       \* tc when its last training began
    tcResult     \* what the last train_classifiers did

VARIABLES
    pe,          \* the PredictiveEngine instance
    peDisk,      \* the fields its model directory holds
    peDb,        \* the event history the engine reads
    peOut        \* what the last predict_threat_trends did

predictiveVars == <<pe, peDisk, peDb, peOut>>

VARIABLES
    ba,          \* the BehavioralAnalyzer instance: its three baseline stores
    baDb,        \* the event history the analyzer reads, as runs of events
    baOut        \* what the last call on the analyzer was and what it found

behaviorVars == <<ba, baDb, baOut>>

VARIABLE
    mgr          \* the train_all_models call of the MLModelManager

managerVars == <<mgr>>

VARIABLES
    patterns,       \* LogPatternMatcher.patterns, in list order
    pmAdds,         \* number of add_custom_pattern calls so far
    pmOut,          \* the last call on the matcher and what it returned
    disabledSince,  \* names disabled, and neither enabled nor added since
    enabledSince    \* names enabled, and neither disabled nor removed since

matcherVars == <<patterns, pmAdds, pmOut, disabledSince, enabledSince>>

VARIABLES
    tsEvents,       \* the events handed to prepare_time_series_features
    tsOut           \* [done, rows] of the call on them

windowVars == <<tsEvents, tsOut>>

VARIABLES
    ipReputation,   \* the rows of table ip_reputation, by ip_address
    repCalls        \* the update_ip_reputation calls made so far

reputationVars == <<ipReputation, repCalls>>

VARIABLES
    insFindings,    \* the findings in the results handed to the aggregator
    insOut          \* [done, insights] of _generate_comprehensive_insights

insightVars == <<insFindings, insOut>>

VARIABLES
    predictions,    \* the hourly predictions handed to the summary
    recOut          \* [done, recommendations] of the call on them

recommendVars == <<predictions, recOut>>

VARIABLES
    trainRows,      \* number of training rows X, oldest first, the history gives
    splitOut        \* which rows the last training fitted on and evaluated on

splitVars == <<trainRows, splitOut>>

VARIABLES
    running,        \* SecurityWatchMonitor.running
    monitor_thread, \* the thread start_monitoring started last, 0 for None
    loopPc,         \* per thread: where its _monitoring_loop stands
    loopPos,        \* per thread: the position monitor_log_file read
    log_positions,  \* the stored position of the log file, in lines
    logSize,        \* the lines the log file has
    ingested,       \* per line: how many times it was read as a new line
    callerPc        \* where the caller of start / stop stands

monitorVars ==
    <<running, monitor_thread, loopPc, loopPos, log_positions, logSize, ingested,
      callerPc>>

\* The state the objects of the model layer do not hold.
outsideModels == <<analyzerVars, matcherVars, windowVars, reputationVars, insightVars, recommendVars, splitVars, monitorVars>>

detectorVars ==
    <<ad, disk, db, calls, damage, thr, pre, fresh, origin, savedGen, tc, tcPre,
      tcResult>>

modelVars ==
    <<ad, disk, db, calls, damage, thr, pre, fresh, origin, savedGen, tc, tcPre,
      tcResult, predictiveVars, behaviorVars, managerVars>>

outsideAnalyzer == <<modelVars, matcherVars, windowVars, reputationVars, insightVars, recommendVars, splitVars, monitorVars>>

outsideMatcher == <<analyzerVars, modelVars, windowVars, reputationVars, insightVars, recommendVars, splitVars, monitorVars>>

outsideWindows == <<analyzerVars, modelVars, matcherVars, reputationVars, insightVars, recommendVars, splitVars, monitorVars>>

outsideReputation == <<analyzerVars, modelVars, matcherVars, windowVars, insightVars, recommendVars, splitVars, monitorVars>>

outsideInsights == <<analyzerVars, modelVars, matcherVars, windowVars, reputationVars, recommendVars, splitVars, monitorVars>>

outsideRecommend == <<analyzerVars, modelVars, matcherVars, windowVars, reputationVars, insightVars, splitVars, monitorVars>>

outsideSplit == <<analyzerVars, modelVars, matcherVars, windowVars, reputationVars, insightVars, recommendVars, monitorVars>>

outsideMonitor == <<analyzerVars, modelVars, matcherVars, windowVars, reputationVars, insightVars, recommendVars, splitVars>>

vars == <<analyzerVars, modelVars, matcherVars, windowVars, reputationVars, insightVars, recommendVars, splitVars, monitorVars>>

Threads == {"fg", "bg"}

IdleThread ==
    [op |-> "idle", pc |-> "idle", gen |-> 0, fetched |-> 0, trained |-> "none",
     result |-> "none", found |-> FALSE,
     used |-> [scaler |-> 0, forest |-> 0, baseline |-> 0]]

NoBehaviorOut ==
    [op |-> "none", before |-> NewBaselines, batch |-> << >>,
     suspicious_new_ip |-> {}, from_baselines |-> "none", findings |-> {}]

Families ==
    <<"anomaly_detector", "threat_classifier", "behavioral_analyzer",
      "predictive_engine">>

FamilySet == {Families[i] : i \in 1..Len(Families)}

\* training_results as train_all_models creates it (lines 54-59), with the
\* number of training attempts made for each family and the length of
\* training_history.
IdleManager ==
    [pc |-> "idle", returned |-> FALSE,
     attempts |-> [f \in FamilySet |-> 0],
     models_trained |-> [f \in FamilySet |-> "absent"],
     errors |-> {}, overall_success |-> TRUE, training_history |-> 0]

AiStates == {"disabled", "init_failed", "untrained", "trained"}

\* ThreatAnalyzer.__init__: enable_ai stays true only when it was requested
\* and MLModelManager was constructed.
EnableAi(s) == s \in {"untrained", "trained"}

\* No model call is made when the model layer is off.
NoCallQuick == [call |-> "ok", anomaly |-> "skipped", behavioral |-> "none"]

NoCallComprehensive ==
    [call |-> "ok", anomaly_high |-> FALSE, class_high |-> FALSE,
     behavioral |-> "none", pred_alert |-> FALSE]

ModelCalls(s) ==
    IF EnableAi(s)
    THEN [quick |-> QuickOutcomes(s = "trained"), comprehensive |-> ComprehensiveOutcomes]
    ELSE [quick |-> {NoCallQuick}, comprehensive |-> {NoCallComprehensive}]

NoResult == [raised |-> FALSE, report |-> DeterministicAnalysis(<< >>)]

InitAnalyzer ==
    /\ events = << >>
    /\ nBatches = 0
    /\ aiState \in AiStates
    /\ phase = "input"
    /\ entry = "none"
    /\ result = NoResult

InitModels ==
    /\ ad = _load_models(EmptyDir)
    /\ disk = EmptyDir
    /\ db = [count |-> 99, with_ip |-> TRUE]
    /\ calls = 0
    /\ damage = 0
    /\ thr = [t \in Threads |-> IdleThread]
    /\ pre = [t \in Threads |-> NewDetector]
    /\ fresh = TRUE
    /\ origin = 0
    /\ savedGen = 0
    /\ tc = NewClassifier
    /\ tcPre = NewClassifier
    /\ tcResult = "none"
    /\ pe = NewEngine
    /\ peDisk = NewEngine
    /\ peDb = [count |-> 99, span |-> 0, recent |-> [count |-> 0, span |-> 0]]
    /\ peOut = NoForecast
    /\ ba = _initialize_baselines(NewBaselines, << >>)
    /\ baDb = << >>
    /\ baOut = NoBehaviorOut
    /\ mgr = IdleManager

NoMatcherOut == [op |-> "none", name |-> << >>, line |-> << >>, events |-> << >>]

\* LogPatternMatcher.__init__
InitMatcher ==
    /\ patterns = _initialize_patterns
    /\ pmAdds = 0
    /\ pmOut = NoMatcherOut
    /\ disabledSince = {}
    /\ enabledSince = {}

InitWindows ==
    /\ tsEvents = << >>
    /\ tsOut = [done |-> FALSE, rows |-> << >>]

InitReputation ==
    /\ ipReputation = << >>
    /\ repCalls = << >>

InitInsights ==
    /\ insFindings = << >>
    /\ insOut = [done |-> FALSE, overall_threat_level |-> "low",
                 confidence_score |-> 0, risk_factors |-> 0]

InitRecommend ==
    /\ predictions = << >>
    /\ recOut = [done |-> FALSE, recommendations |-> << >>]

InitSplit ==
    /\ trainRows = 0
    /\ splitOut = [called |-> FALSE, trained |-> FALSE, rows |-> 0,
                   fitted_on |-> {}, tested_on |-> {}]

InitMonitor ==
    /\ running = FALSE
    /\ monitor_thread = 0
    /\ loopPc = [t \in 1..MaxLoops |-> "none"]
    /\ loopPos = [t \in 1..MaxLoops |-> 0]
    /\ log_positions = 0
    /\ logSize = 0
    /\ ingested = [l \in 1..MaxLines |-> 0]
    /\ callerPc = "idle"

Init == InitAnalyzer /\ InitModels /\ InitMatcher /\ InitWindows /\ InitReputation /\ InitInsights /\ InitRecommend /\ InitSplit /\ InitMonitor

\* The model layer on its own: no analyzer call is made.
InitModelLayer ==
    /\ events = << >>
    /\ nBatches = 0
    /\ aiState = "trained"
    /\ phase = "input"
    /\ entry = "none"
    /\ result = NoResult
    /\ InitModels
    /\ InitMatcher
    /\ InitWindows
    /\ InitReputation
    /\ InitInsights
    /\ InitRecommend
    /\ InitSplit
    /\ InitMonitor

\* ------------------------------------------------------------------------
\* Analyzer actions
\* ------------------------------------------------------------------------
AddBatch ==
    /\ phase = "input"
    /\ nBatches < MaxBatches
    /\ \E b \in Batches : events' = Append(events, b)
    /\ nBatches' = nBatches + 1
    /\ UNCHANGED <<aiState, phase, entry, result>>
    /\ UNCHANGED outsideAnalyzer

CallAnalyzeEvents ==
    /\ phase = "input"
    /\ LET det == DeterministicAnalysis(events)
       IN \E q \in ModelCalls(aiState).quick :
             result' = analyze_events(det, EnableAi(aiState), q)
    /\ phase' = "done"
    /\ entry' = "analyze_events"
    /\ UNCHANGED <<events, nBatches, aiState>>
    /\ UNCHANGED outsideAnalyzer

CallAnalyzeEventsComprehensiveAi ==
    /\ phase = "input"
    /\ LET det == DeterministicAnalysis(events)
       IN \E c \in ModelCalls(aiState).comprehensive, q \in ModelCalls(aiState).quick :
             result' = analyze_events_comprehensive_ai(det, EnableAi(aiState), c, q)
    /\ phase' = "done"
    /\ entry' = "analyze_events_comprehensive_ai"
    /\ UNCHANGED <<events, nBatches, aiState>>
    /\ UNCHANGED outsideAnalyzer

NextAnalyzer ==
    \/ AddBatch
    \/ CallAnalyzeEvents
    \/ CallAnalyzeEventsComprehensiveAi

SpecAnalyzer == Init /\ [][NextAnalyzer]_vars

\* ------------------------------------------------------------------------
\* AnomalyDetector actions.  train_models and detect_anomalies are taken one
\* statement at a time, so that two threads can interleave; pc names the
\* statement a thread executes next.
\* ------------------------------------------------------------------------
Idle(t) == thr[t].op = "idle"

ModelsFrame == UNCHANGED <<outsideModels, predictiveVars, behaviorVars, managerVars>>

\* The entry of train_models in thread t.
BeginTrain(t) ==
    /\ Idle(t)
    /\ calls < MaxCalls
    /\ calls' = calls + 1
    /\ thr' = [thr EXCEPT ![t] = [IdleThread EXCEPT
                  !.op = "train", !.pc = "T_fetch", !.gen = calls + 1]]
    /\ pre' = [pre EXCEPT ![t] = ad]
    /\ fresh' = FALSE
    /\ origin' = 0
    /\ UNCHANGED <<ad, disk, db, damage, savedGen, tc, tcPre, tcResult>>

\* A call of train_models (by a caller of its own, or by the auto-training loop).
StartTrain(t) == BeginTrain(t) /\ ModelsFrame

\* What the thread with state me does when its train_models ends with value
\* v: a direct call returns v; inside detect_anomalies, True goes on to
\* score, False makes it return [] and an exception leaves it too.
TrainEnds(me, v) ==
    IF me.op = "train"
    THEN [me EXCEPT !.op = "idle", !.pc = "idle", !.trained = v, !.result = v]
    ELSE IF v = "true"
    THEN [me EXCEPT !.pc = "D_scale", !.trained = v]
    ELSE [me EXCEPT !.op = "idle", !.pc = "idle", !.trained = v,
                    !.result = IF v = "false" THEN "empty" ELSE "raised"]

\* Mutant: the refusal threshold is 50 events.
TFetchLowThreshold(t) ==
    /\ thr[t].pc = "T_fetch"
    /\ LET me == [thr[t] EXCEPT !.fetched = db.count]
       IN IF db.count < 50 \/ ~db.with_ip
          THEN thr' = [thr EXCEPT ![t] = TrainEnds(me, "false")]
          ELSE thr' = [thr EXCEPT ![t] = [me EXCEPT !.pc = "T_scale"]]
    /\ UNCHANGED <<ad, disk, db, calls, damage, pre, fresh, origin, savedGen,
                   tc, tcPre, tcResult>>
    /\ ModelsFrame

\* Lines 122-137: fetch the history, refuse under 100 events or without
\* features, build X.
TFetch(t) ==
    /\ thr[t].pc = "T_fetch"
    /\ LET me == [thr[t] EXCEPT !.fetched = db.count]
       IN IF db.count < 100 \/ ~db.with_ip
          THEN thr' = [thr EXCEPT ![t] = TrainEnds(me, "false")]
          ELSE thr' = [thr EXCEPT ![t] = [me EXCEPT !.pc = "T_scale"]]
    /\ UNCHANGED <<ad, disk, db, calls, damage, pre, fresh, origin, savedGen,
                   tc, tcPre, tcResult>>
    /\ ModelsFrame

\* One statement of train_models that assigns to ad and goes on.
TrainStep(t, from, to, newAd) ==
    /\ thr[t].pc = from
    /\ ad' = newAd
    /\ thr' = [thr EXCEPT ![t].pc = to]
    /\ UNCHANGED <<disk, db, calls, damage, pre, fresh, origin, savedGen,
                   tc, tcPre, tcResult>>
    /\ ModelsFrame

\* A fit that raises: the exception leaves train_models.
TrainRaises(t, from) ==
    /\ thr[t].pc = from
    /\ thr' = [thr EXCEPT ![t] = TrainEnds(thr[t], "raised")]
    /\ UNCHANGED <<ad, disk, db, calls, damage, pre, fresh, origin, savedGen,
                   tc, tcPre, tcResult>>
    /\ ModelsFrame

\* Line 140: self.scaler.fit_transform(X) refits the scaler object in place.
TScale(t) ==
    TrainStep(t, "T_scale", "T_forest_new", [ad EXCEPT !.scaler = thr[t].gen])

\* Lines 143-147: self.isolation_forest = IsolationForest(...)
TForestNew(t) ==
    TrainStep(t, "T_forest_new", "T_forest_fit",
              [ad EXCEPT !.isolation_forest = [gen |-> thr[t].gen, fitted |-> FALSE]])

\* Line 148: self.isolation_forest.fit(X_scaled)
TForestFit(t) ==
    \/ TrainStep(t, "T_forest_fit", "T_dbscan_new",
                 [ad EXCEPT !.isolation_forest.fitted = TRUE])
    \/ TrainRaises(t, "T_forest_fit")

\* Line 151: self.dbscan = DBSCAN(...)
TDbscanNew(t) ==
    TrainStep(t, "T_dbscan_new", "T_dbscan_fit",
              [ad EXCEPT !.dbscan = [gen |-> thr[t].gen, fitted_on |-> "none"]])

\* Line 152: self.dbscan.fit(X_scaled)
TDbscanFit(t) ==
    \/ TrainStep(t, "T_dbscan_fit", "T_baseline",
                 [ad EXCEPT !.dbscan.fitted_on = "train"])
    \/ TrainRaises(t, "T_dbscan_fit")

\* Lines 155-164: self.baseline_features = {...}
TBaseline(t) ==
    TrainStep(t, "T_baseline", "T_flag", [ad EXCEPT !.baseline_features = thr[t].gen])

\* Line 166: self.is_trained = True
TFlag(t) ==
    TrainStep(t, "T_flag", "T_save", [ad EXCEPT !.is_trained = TRUE])

\* All objects a scoring call reads were fitted by training g.
Coherent(a, g) ==
    /\ a.scaler = g
    /\ a.isolation_forest = [gen |-> g, fitted |-> TRUE]
    /\ a.baseline_features = g

\* Lines 167-170: self._save_models(); return True
TSave(t, failures) ==
    /\ thr[t].pc = "T_save"
    /\ \E fail \in failures :
          /\ disk' = _save_models(ad, disk, fail)
          /\ savedGen' = IF SaveCompleted(ad, fail) /\ ad.is_trained
                            /\ Coherent(ad, thr[t].gen)
                         THEN thr[t].gen ELSE 0
    /\ thr' = [thr EXCEPT ![t] = TrainEnds(thr[t], "true")]
    /\ UNCHANGED <<ad, db, calls, damage, pre, fresh, origin, tc, tcPre, tcResult>>
    /\ ModelsFrame

\* A call of detect_anomalies.
StartDetect(t) ==
    /\ Idle(t)
    /\ calls < MaxCalls
    /\ calls' = calls + 1
    /\ thr' = [thr EXCEPT ![t] = [IdleThread EXCEPT
                  !.op = "detect", !.pc = "D_check", !.gen = calls + 1]]
    /\ fresh' = FALSE
    /\ UNCHANGED <<ad, disk, db, damage, pre, origin, savedGen, tc, tcPre, tcResult>>
    /\ ModelsFrame

\* Lines 174-177: an untrained detector trains first, inside the call.
DCheck(t) ==
    /\ thr[t].pc = "D_check"
    /\ IF ad.is_trained
       THEN /\ thr' = [thr EXCEPT ![t].pc = "D_scale"]
            /\ UNCHANGED <<pre, origin>>
       ELSE /\ thr' = [thr EXCEPT ![t].pc = "T_fetch"]
            /\ pre' = [pre EXCEPT ![t] = ad]
            /\ origin' = 0
    /\ UNCHANGED <<ad, disk, db, calls, damage, fresh, savedGen, tc, tcPre, tcResult>>
    /\ ModelsFrame

DetectEnds(me, v) == [me EXCEPT !.op = "idle", !.pc = "idle", !.result = v]

DetectFrame ==
    /\ UNCHANGED <<disk, db, calls, damage, pre, fresh, origin, savedGen,
                   tc, tcPre, tcResult>>
    /\ ModelsFrame

\* Lines 180-186: no features gives []; self.scaler.transform(X) raises
\* NotFittedError on a scaler that was never fitted.
DScale(t) ==
    /\ thr[t].pc = "D_scale"
    /\ \E has_features \in BOOLEAN :
          thr' = [thr EXCEPT ![t] =
                    IF ~has_features THEN DetectEnds(thr[t], "empty")
                    ELSE IF ad.scaler = 0 THEN DetectEnds(thr[t], "raised")
                    ELSE [thr[t] EXCEPT !.pc = "D_forest", !.used.scaler = ad.scaler]]
    /\ UNCHANGED ad
    /\ DetectFrame

\* Lines 189-190: decision_function and predict of self.isolation_forest;
\* None raises AttributeError, an unfitted forest NotFittedError.
DForest(t) ==
    /\ thr[t].pc = "D_forest"
    /\ \E found \in BOOLEAN :
          thr' = [thr EXCEPT ![t] =
                    IF ~ad.isolation_forest.fitted THEN DetectEnds(thr[t], "raised")
                    ELSE [thr[t] EXCEPT !.pc = "D_dbscan", !.found = found,
                                        !.used.forest = ad.isolation_forest.gen]]
    /\ UNCHANGED ad
    /\ DetectFrame

\* Line 193: self.dbscan.fit_predict(X_scaled) refits the cluster model on
\* the events of the call; None raises AttributeError.
DDbscan(t) ==
    /\ thr[t].pc = "D_dbscan"
    /\ IF ad.dbscan.gen = 0
       THEN /\ thr' = [thr EXCEPT ![t] = DetectEnds(thr[t], "raised")]
            /\ UNCHANGED ad
       ELSE /\ thr' = [thr EXCEPT ![t].pc = "D_classify"]
            /\ ad' = [ad EXCEPT !.dbscan.fitted_on = "detect"]
    /\ DetectFrame

\* Lines 195-221: each anomalous row is typed against self.baseline_features
\* (an empty dict raises KeyError); then the list is returned.
DClassify(t) ==
    /\ thr[t].pc = "D_classify"
    /\ thr' = [thr EXCEPT ![t] =
                 IF ~thr[t].found THEN DetectEnds(thr[t], "scored")
                 ELSE IF ad.baseline_features = 0 THEN DetectEnds(thr[t], "raised")
                 ELSE DetectEnds([thr[t] EXCEPT !.used.baseline = ad.baseline_features],
                                 "scored")]
    /\ UNCHANGED ad
    /\ DetectFrame

\* AnomalyDetector(database, model_path): a new instance on the same directory.
NewInstance ==
    /\ \A t \in Threads : Idle(t)
    /\ ~fresh
    /\ ad' = _load_models(disk)
    /\ thr' = [t \in Threads |-> IdleThread]
    /\ pre' = [t \in Threads |-> NewDetector]
    /\ fresh' = TRUE
    /\ origin' = savedGen
    /\ UNCHANGED <<disk, db, calls, damage, savedGen, tc, tcPre, tcResult>>
    /\ ModelsFrame

\* A file of the model directory is deleted or left unreadable.
DamageFile ==
    /\ damage < MaxDamage
    /\ \A t \in Threads : Idle(t)
    /\ \E f \in FileNames, how \in {"absent", "corrupt"} :
          /\ disk[f].state = "ok"
          /\ disk' = [disk EXCEPT ![f].state = how]
    /\ damage' = damage + 1
    /\ savedGen' = 0
    /\ UNCHANGED <<ad, db, calls, thr, pre, fresh, origin, tc, tcPre, tcResult>>
    /\ ModelsFrame

\* Events are stored in (or expire from) the database.
StoreEvents ==
    /\ \A t \in Threads : Idle(t)
    /\ \E h \in Histories : h # db /\ db' = h
    /\ UNCHANGED <<ad, disk, calls, damage, thr, pre, fresh, origin, savedGen,
                   tc, tcPre, tcResult>>
    /\ ModelsFrame

\* ThreatClassifier.train_classifiers, from its entry to its end.
ClassifierCall ==
    /\ calls < MaxCalls
    /\ calls' = calls + 1
    /\ \E outcome \in ClassifierOutcomes :
          LET r == train_classifiers(tc, db, calls + 1, outcome)
          IN /\ tc' = r.fields
             /\ tcResult' = r.value
    /\ tcPre' = tc
    /\ UNCHANGED <<ad, disk, db, damage, thr, pre, fresh, origin, savedGen>>

\* A call of ThreatClassifier.train_classifiers.
TrainClassifiers == ClassifierCall /\ ModelsFrame

TrainSteps(t, failures) ==
    \/ TFetch(t)
    \/ TScale(t)
    \/ TForestNew(t)
    \/ TForestFit(t)
    \/ TDbscanNew(t)
    \/ TDbscanFit(t)
    \/ TBaseline(t)
    \/ TFlag(t)
    \/ TSave(t, failures)

DetectSteps(t) ==
    \/ DCheck(t)
    \/ DScale(t)
    \/ DForest(t)
    \/ DDbscan(t)
    \/ DClassify(t)

\* One caller: every call runs to its end before the next one starts.
NextModels ==
    \/ StartTrain("fg")
    \/ StartDetect("fg")
    \/ TrainSteps("fg", 0..4)
    \/ DetectSteps("fg")
    \/ NewInstance
    \/ DamageFile
    \/ StoreEvents
    \/ TrainClassifiers

SpecModels == InitModelLayer /\ [][NextModels]_vars

\* Detection calls in one thread while the auto-training thread retrains.
NextConcurrent ==
    \/ StartTrain("bg")
    \/ StartDetect("fg")
    \/ \E t \in Threads : TrainSteps(t, {0})
    \/ DetectSteps("fg")
    \/ StoreEvents

SpecConcurrent == InitModelLayer /\ [][NextConcurrent]_vars

\* ------------------------------------------------------------------------
\* PredictiveEngine actions
\* ------------------------------------------------------------------------
EngineFrame ==
    UNCHANGED <<outsideModels, ad, disk, db, calls, damage, thr, pre, fresh,
                origin, savedGen, tc, tcPre, tcResult, behaviorVars, managerVars>>

\* Events arrive in the database.
StoreEngineEvents ==
    /\ \E h \in EngineHistories : peDb' = h
    /\ UNCHANGED <<pe, peDisk, peOut>>
    /\ EngineFrame

\* train_prediction_models; a successful training ends with _save_models.
EngineTraining ==
    /\ \E fail \in 0..4 :
          LET t == train_prediction_models(pe, peDb)
          IN /\ pe' = t.fields
             /\ peDisk' = IF t.value THEN _save_engine(t.fields, peDisk, fail)
                          ELSE peDisk
    /\ UNCHANGED <<peDb, peOut>>

\* A call of train_prediction_models.
TrainPredictionModels == EngineTraining /\ EngineFrame

\* predict_threat_trends, with the training it runs on an untrained engine.
PredictThreatTrends ==
    /\ \E hours_ahead \in 0..2, fail \in 0..4 :
          LET p == predict_threat_trends(pe, peDb, peDb.recent, hours_ahead)
          IN /\ pe' = p.fields
             /\ peDisk' = IF p.fitted THEN _save_engine(p.fields, peDisk, fail)
                          ELSE peDisk
             /\ peOut' = p.out
    /\ UNCHANGED peDb
    /\ EngineFrame

\* A new PredictiveEngine on the model directory: __init__ and _load_models.
NewEngineInstance ==
    /\ pe' = peDisk
    /\ peOut' = NoForecast
    /\ UNCHANGED <<peDisk, peDb>>
    /\ EngineFrame

NextPredictive ==
    \/ StoreEngineEvents
    \/ TrainPredictionModels
    \/ PredictThreatTrends
    \/ NewEngineInstance

SpecPredictive == InitModelLayer /\ [][NextPredictive]_vars

\* ------------------------------------------------------------------------
\* BehavioralAnalyzer actions
\* ------------------------------------------------------------------------
BehaviorFrame ==
    UNCHANGED <<outsideModels, detectorVars, predictiveVars, managerVars>>

\* Events arrive in the database.
StoreBehaviorEvents ==
    /\ Len(baDb) < MaxSnapshot
    /\ \E b \in BehaviorBatches : baDb' = Append(baDb, b)
    /\ UNCHANGED <<ba, baOut>>
    /\ BehaviorFrame

\* The oldest events leave the learning window of get_recent_events.
ExpireBehaviorEvents ==
    /\ baDb # << >>
    /\ baDb' = Tail(baDb)
    /\ UNCHANGED <<ba, baOut>>
    /\ BehaviorFrame

\* _initialize_baselines on the history of the database.
BaselineRebuild ==
    /\ ba' = _initialize_baselines(ba, baDb)
    /\ baOut' = [NoBehaviorOut EXCEPT !.op = "retrain", !.before = ba,
                                      !.batch = baDb]
    /\ UNCHANGED baDb

\* A retrain of the baselines.
InitializeBaselines == BaselineRebuild /\ BehaviorFrame

\* The event lists handed to an analysis call.
AnalysisBatches == {<<b>> : b \in BehaviorBatches}

\* A call of analyze_behavioral_anomalies.
AnalyzeBehavioralAnomalies ==
    /\ \E evs \in AnalysisBatches :
         \E f \in BaselineFindings(ba, evs) :
          \E types \in FindingTypeChoices(f) :
            LET r == analyze_behavioral_anomalies(ba, evs, f)
            IN /\ ba' = r.baselines
               /\ baOut' = [op |-> "analysis", before |-> ba, batch |-> evs,
                            suspicious_new_ip |-> r.suspicious_new_ip,
                            from_baselines |-> r.from_baselines,
                            findings |->
                                BehavioralFindings(r.suspicious_new_ip, types)]
    /\ UNCHANGED baDb
    /\ BehaviorFrame

NextBehavior ==
    \/ StoreBehaviorEvents
    \/ ExpireBehaviorEvents
    \/ InitializeBaselines
    \/ AnalyzeBehavioralAnomalies

SpecBehavior == InitModelLayer /\ [][NextBehavior]_vars

\* ------------------------------------------------------------------------
\* MLModelManager.train_all_models (ai/ml_models.py), one family at a time.
\* ------------------------------------------------------------------------
\* Mutant: an exception in one block ends the whole training.
NextBlockAborts(pc, v) ==
    IF v = "raised" THEN "finish"
    ELSE CASE pc = "anomaly_detector" -> "threat_classifier"
           [] pc = "threat_classifier" -> "behavioral_analyzer"
           [] pc = "behavioral_analyzer" -> "predictive_engine"
           [] pc = "predictive_engine" -> "finish"

\* The statement train_all_models goes on with after the try block of a
\* family, whatever the block did.
NextBlock(pc, v) ==
    CASE pc = "anomaly_detector" -> "threat_classifier"
      [] pc = "threat_classifier" -> "behavioral_analyzer"
      [] pc = "behavioral_analyzer" -> "predictive_engine"
      [] pc = "predictive_engine" -> "finish"

\* One try block: the training of family f was attempted and returned
\* "true" or "false", or "raised".
Block(m, f, v) ==
    [m EXCEPT
        !.pc = NextBlock(f, v),
        !.attempts[f] = @ + 1,
        !.models_trained[f] = IF v = "raised" THEN @ ELSE v,
        !.errors = IF v = "raised" THEN @ \cup {f} ELSE @,
        !.overall_success = IF v = "true" THEN @ ELSE FALSE]

\* Lines 50-59: a call of train_all_models starts.
TrainAllStart ==
    /\ mgr.pc = "idle"
    /\ calls + 2 <= MaxCalls
    /\ \A t \in Threads : Idle(t)
    /\ mgr' = [IdleManager EXCEPT !.pc = "anomaly_detector",
                                  !.training_history = mgr.training_history]
    /\ UNCHANGED <<outsideModels, detectorVars, predictiveVars, behaviorVars>>

\* Line 64: self.anomaly_detector.train_models() is entered.
TrainAllAnomalyCall ==
    /\ mgr.pc = "anomaly_detector"
    /\ BeginTrain("fg")
    /\ mgr' = [mgr EXCEPT !.pc = "anomaly_detector_runs"]
    /\ UNCHANGED <<outsideModels, predictiveVars, behaviorVars>>

\* Lines 64-75: train_models has returned or raised.
TrainAllAnomalyReturn ==
    /\ mgr.pc = "anomaly_detector_runs"
    /\ Idle("fg")
    /\ mgr' = Block(mgr, "anomaly_detector", thr["fg"].result)
    /\ UNCHANGED <<outsideModels, detectorVars, predictiveVars, behaviorVars>>

\* Lines 78-91: the threat classifier.
TrainAllClassifier ==
    /\ mgr.pc = "threat_classifier"
    /\ ClassifierCall
    /\ mgr' = Block(mgr, "threat_classifier", tcResult')
    /\ UNCHANGED <<outsideModels, predictiveVars, behaviorVars>>

\* Lines 94-105: the baselines; the success flag is the constant True, and
\* an error of the database read in _initialize_baselines is caught.
TrainAllBehavioral ==
    /\ mgr.pc = "behavioral_analyzer"
    /\ \/ /\ BaselineRebuild
          /\ mgr' = Block(mgr, "behavioral_analyzer", "true")
       \/ /\ UNCHANGED behaviorVars
          /\ mgr' = Block(mgr, "behavioral_analyzer", "raised")
    /\ UNCHANGED <<outsideModels, detectorVars, predictiveVars>>

\* Lines 108-121: the predictive engine.
TrainAllPredictive ==
    /\ mgr.pc = "predictive_engine"
    /\ EngineTraining
    /\ mgr' = Block(mgr, "predictive_engine",
                    IF train_prediction_models(pe, peDb).value
                    THEN "true" ELSE "false")
    /\ UNCHANGED <<outsideModels, detectorVars, behaviorVars>>

\* Lines 123-138: the result is appended to training_history and returned.
TrainAllFinish ==
    /\ mgr.pc = "finish"
    /\ mgr' = [mgr EXCEPT !.pc = "idle", !.returned = TRUE,
                          !.training_history = @ + 1]
    /\ UNCHANGED <<outsideModels, detectorVars, predictiveVars, behaviorVars>>

\* The histories are the ones stored before the first training call.
HistoryBefore == mgr.pc = "idle" /\ ~mgr.returned

NextManager ==
    \/ TrainAllStart
    \/ TrainAllAnomalyCall
    \/ TrainSteps("fg", {0})
    \/ TrainAllAnomalyReturn
    \/ TrainAllClassifier
    \/ TrainAllBehavioral
    \/ TrainAllPredictive
    \/ TrainAllFinish
    \/ HistoryBefore /\ StoreEvents
    \/ HistoryBefore /\ StoreEngineEvents /\ peDb'.span = MaxSpan
                     /\ peDb'.recent.count = 0
    \/ HistoryBefore /\ StoreBehaviorEvents /\ Len(baDb') = 1

SpecManager == InitModelLayer /\ [][NextManager]_vars

\* ------------------------------------------------------------------------
\* LogPatternMatcher actions
\* ------------------------------------------------------------------------
MatcherFrame == UNCHANGED outsideMatcher

MatcherOut(op, name, line, evs) ==
    [op |-> op, name |-> name, line |-> line, events |-> evs]

MatchPatterns ==
    /\ \E line \in LogLines :
          pmOut' = MatcherOut("match", << >>, line,
                              match_patterns(patterns, line, 1))
    /\ UNCHANGED <<patterns, pmAdds, disabledSince, enabledSince>>
    /\ MatcherFrame

AddCustomPattern ==
    /\ pmAdds < MaxAdds
    /\ \E pattern \in CustomPatterns :
          /\ patterns' = add_custom_pattern(patterns, pattern)
          /\ pmOut' = MatcherOut("add", pattern.name, << >>, << >>)
          /\ disabledSince' = disabledSince \ {pattern.name}
    /\ pmAdds' = pmAdds + 1
    /\ UNCHANGED enabledSince
    /\ MatcherFrame

RemovePattern ==
    /\ \E name \in PatternNames :
          /\ patterns' = remove_pattern(patterns, name)
          /\ pmOut' = MatcherOut("remove", name, << >>, << >>)
          /\ enabledSince' = enabledSince \ {name}
    /\ UNCHANGED <<pmAdds, disabledSince>>
    /\ MatcherFrame

EnablePattern ==
    /\ \E name \in PatternNames :
          /\ patterns' = enable_pattern(patterns, name)
          /\ pmOut' = MatcherOut("enable", name, << >>, << >>)
          /\ disabledSince' = disabledSince \ {name}
          /\ enabledSince' = enabledSince \cup {name}
    /\ UNCHANGED pmAdds
    /\ MatcherFrame

DisablePattern ==
    /\ \E name \in PatternNames :
          /\ patterns' = disable_pattern(patterns, name)
          /\ pmOut' = MatcherOut("disable", name, << >>, << >>)
          /\ disabledSince' = disabledSince \cup {name}
          /\ enabledSince' = enabledSince \ {name}
    /\ UNCHANGED pmAdds
    /\ MatcherFrame

NextPatterns ==
    \/ MatchPatterns
    \/ AddCustomPattern
    \/ RemovePattern
    \/ EnablePattern
    \/ DisablePattern

SpecPatterns == InitModelLayer /\ [][NextPatterns]_vars

\* ------------------------------------------------------------------------
\* prepare_time_series_features on its own
\* ------------------------------------------------------------------------
WindowSeverities == {"critical", "medium"}

\* One more event for the next call, in any order of time.
AddWindowEvent ==
    /\ ~tsOut.done
    /\ Len(tsEvents) < MaxWindowEvents
    /\ \E t \in 0..MaxStamp, sev \in WindowSeverities :
          tsEvents' = Append(tsEvents, [timestamp |-> t, severity |-> sev])
    /\ UNCHANGED tsOut
    /\ UNCHANGED outsideWindows

PrepareTimeSeriesFeatures ==
    /\ ~tsOut.done
    /\ tsOut' = [done |-> TRUE, rows |-> time_windows(tsEvents)]
    /\ UNCHANGED tsEvents
    /\ UNCHANGED outsideWindows

NextWindows ==
    \/ AddWindowEvent
    \/ PrepareTimeSeriesFeatures

SpecWindows == InitModelLayer /\ [][NextWindows]_vars

\* ------------------------------------------------------------------------
\* SecurityDatabase.update_ip_reputation (core/database.py)
\* ------------------------------------------------------------------------
\* score_map.get(severity, 1)
score_map(severity) ==
    CASE severity = "low" -> 1 [] severity = "medium" -> 5
      [] severity = "high" -> 10 [] severity = "critical" -> 20 [] OTHER -> 1

\* COALESCE((SELECT column FROM ip_reputation WHERE ip_address = ip), 0)
StoredOrZero(table, ip, column) ==
    IF ip \in DOMAIN table THEN table[ip][column] ELSE 0

\* Mutant: the new row holds the points of this call alone.
UpdateIpReputationReplaces(table, ip, severity) ==
    (ip :> [reputation_score |-> score_map(severity),
            event_count |-> StoredOrZero(table, ip, "event_count") + 1,
            is_blocked |-> score_map(severity) > 50])
    @@ table

\* INSERT OR REPLACE of the row of ip (lines 131-142).
update_ip_reputation(table, ip, severity) ==
    LET score == StoredOrZero(table, ip, "reputation_score") + score_map(severity)
    IN (ip :> [reputation_score |-> score,
               event_count |-> StoredOrZero(table, ip, "event_count") + 1,
               is_blocked |-> score > 50])
       @@ table

ReputationIps == {"192.168.1.100", "10.0.0.1"}

ReputationSeverities == {"low", "medium", "high", "critical"}

UpdateIpReputation ==
    /\ Len(repCalls) < MaxReputationCalls
    /\ \E ip \in ReputationIps, severity \in ReputationSeverities :
          /\ ipReputation' = update_ip_reputation(ipReputation, ip, severity)
          /\ repCalls' = Append(repCalls, [ip |-> ip, severity |-> severity])
    /\ UNCHANGED outsideReputation

NextReputation == UpdateIpReputation

SpecReputation == InitModelLayer /\ [][NextReputation]_vars

\* ------------------------------------------------------------------------
\* MLModelManager._generate_comprehensive_insights on lists of findings.
\* A finding is [category, value]: the confidence of an anomaly, the
\* risk_score of a classification, the severity of a behavioural anomaly,
\* or an alert of the prediction summary.
\* ------------------------------------------------------------------------
FindingsOf(findings, category) ==
    SelectSeq(findings, LAMBDA f : f.category = category)

high_confidence_anomalies(findings) ==
    SelectSeq(FindingsOf(findings, "anomaly"), LAMBDA f : f.value > 80)

high_risk_threats(findings) ==
    SelectSeq(FindingsOf(findings, "classification"), LAMBDA f : f.value > 70)

critical_behavioral(findings) ==
    SelectSeq(FindingsOf(findings, "behavioral"), LAMBDA f : f.value = "critical")

LevelOfRiskFactors(n) ==
    IF n >= 3 THEN [overall_threat_level |-> "critical", risk_score |-> 80]
    ELSE IF n >= 2 THEN [overall_threat_level |-> "high", risk_score |-> 60]
    ELSE IF n >= 1 THEN [overall_threat_level |-> "medium", risk_score |-> 40]
    ELSE [overall_threat_level |-> "low", risk_score |-> 20]

InsightsFor(n) ==
    [done |-> TRUE,
     overall_threat_level |-> LevelOfRiskFactors(n).overall_threat_level,
     confidence_score |-> Min2(LevelOfRiskFactors(n).risk_score, 95),
     risk_factors |-> n]

\* Mutant: one risk factor for every finding that passes its filter.
ComprehensiveInsightsPerFinding(findings) ==
    InsightsFor(Len(high_confidence_anomalies(findings))
                  + Len(high_risk_threats(findings))
                  + Len(critical_behavioral(findings))
                  + Len(FindingsOf(findings, "alert")))

\* Lines 205-262: the risk factors, the level and the confidence.
comprehensive_insights(findings) ==
    InsightsFor((IF high_confidence_anomalies(findings) # << >> THEN 1 ELSE 0)
                  + (IF high_risk_threats(findings) # << >> THEN 1 ELSE 0)
                  + (IF critical_behavioral(findings) # << >> THEN 1 ELSE 0)
                  + (IF FindingsOf(findings, "alert") # << >> THEN 1 ELSE 0))

FindingInputs ==
    [category : {"anomaly"}, value : {80, 81}]
    \cup [category : {"classification"}, value : {70, 71}]
    \cup [category : {"behavioral"}, value : {"high", "critical"}]
    \cup [category : {"alert"}, value : {"high_volume"}]

AddFinding ==
    /\ ~insOut.done
    /\ Len(insFindings) < MaxFindings
    /\ \E f \in FindingInputs : insFindings' = Append(insFindings, f)
    /\ UNCHANGED insOut
    /\ UNCHANGED outsideInsights

GenerateComprehensiveInsights ==
    /\ ~insOut.done
    /\ insOut' = comprehensive_insights(insFindings)
    /\ UNCHANGED insFindings
    /\ UNCHANGED outsideInsights

NextInsights ==
    \/ AddFinding
    \/ GenerateComprehensiveInsights

SpecInsights == InitModelLayer /\ [][NextInsights]_vars

\* ------------------------------------------------------------------------
\* PredictiveEngine._generate_predictive_recommendations.  A prediction is
\* [hour, timing_risk_score, overall_risk_level, predicted_event_volume],
\* hour being the hour of day of its timestamp and the risk in tenths.
\* ------------------------------------------------------------------------
\* Python's range(a, b): the integers from a up to b - 1.
range(a, b) == a..(b - 1)

_generate_predictive_recommendations(preds) ==
    LET high_risk_hours ==
            SelectSeq(preds, LAMBDA p : p.overall_risk_level \in {"critical", "high"})
        max_volume == SetMax({preds[i].predicted_event_volume : i \in 1..Len(preds)})
        night_risks ==
            SelectSeq(preds, LAMBDA p : /\ p.timing_risk_score > 7
                                        /\ p.hour \in range(22, 6))
    IN (IF high_risk_hours # << >>
        THEN <<"prepare_for_elevated_activity", "review_incident_response">>
        ELSE << >>)
       \o (IF max_volume > 30
           THEN <<"prepare_for_high_volume", "scale_monitoring">> ELSE << >>)
       \o (IF night_risks # << >> THEN <<"off_hours_monitoring">> ELSE << >>)

PredictionInputs ==
    [hour : {3, 12, 23}, timing_risk_score : {7, 8},
     overall_risk_level : {"low", "high"}, predicted_event_volume : {30, 31}]

AddPrediction ==
    /\ ~recOut.done
    /\ Len(predictions) < MaxPredictions
    /\ \E p \in PredictionInputs : predictions' = Append(predictions, p)
    /\ UNCHANGED recOut
    /\ UNCHANGED outsideRecommend

\* _generate_prediction_summary asks for recommendations when there is at
\* least one prediction.
GeneratePredictiveRecommendations ==
    /\ ~recOut.done
    /\ predictions # << >>
    /\ recOut' = [done |-> TRUE,
                  recommendations |-> _generate_predictive_recommendations(predictions)]
    /\ UNCHANGED predictions
    /\ UNCHANGED outsideRecommend

NextRecommend ==
    \/ AddPrediction
    \/ GeneratePredictiveRecommendations

SpecRecommend == InitModelLayer /\ [][NextRecommend]_vars

\* ------------------------------------------------------------------------
\* The rows train_prediction_models fits on and _evaluate_models tests on.
\* Row i of X is the i-th oldest time bucket that has all its lags.
\* ------------------------------------------------------------------------
\* int(len(X) * 0.8)
split_idx(n) == (n * 8) \div 10

\* _evaluate_models: X_test = X[split_idx:]
TestRows(n) == (split_idx(n) + 1)..n

\* Lines 166-193: too few rows return False; otherwise both regressors are
\* fitted on X_scaled and evaluated by _evaluate_models(X_scaled, ...).
FitAndEvaluate(n) ==
    IF n < 20
    THEN [called |-> TRUE, trained |-> FALSE, rows |-> n,
          fitted_on |-> {}, tested_on |-> {}]
    ELSE [called |-> TRUE, trained |-> TRUE, rows |-> n,
          fitted_on |-> 1..n, tested_on |-> TestRows(n)]

\* One more hour of history.
StoreTrainingRow ==
    /\ trainRows < MaxTrainingRows
    /\ trainRows' = trainRows + 1
    /\ UNCHANGED splitOut
    /\ UNCHANGED outsideSplit

TrainOnRows ==
    /\ splitOut' = FitAndEvaluate(trainRows)
    /\ UNCHANGED trainRows
    /\ UNCHANGED outsideSplit

NextSplit ==
    \/ StoreTrainingRow
    \/ TrainOnRows

SpecSplit == InitModelLayer /\ [][NextSplit]_vars

\* ------------------------------------------------------------------------
\* SecurityWatchMonitor (core/monitor.py): the caller of start_monitoring
\* and stop_monitoring, and the threads that run _monitoring_loop.
\* ------------------------------------------------------------------------
is_alive(t) == t # 0 /\ loopPc[t] \notin {"none", "exited"}

\* A line is written to the watched log.
AppendLogLine ==
    /\ logSize < MaxLines
    /\ logSize' = logSize + 1
    /\ UNCHANGED <<running, monitor_thread, loopPc, loopPos, log_positions,
                   ingested, callerPc>>
    /\ UNCHANGED outsideMonitor

\* start_monitoring: nothing when running is set; otherwise the positions
\* go to the end of the file and a new thread is started.
StartMonitoring ==
    /\ callerPc = "idle"
    /\ monitor_thread < MaxLoops
    /\ IF running
       THEN UNCHANGED <<running, monitor_thread, loopPc, log_positions>>
       ELSE /\ running' = TRUE
            /\ log_positions' = logSize
            /\ monitor_thread' = monitor_thread + 1
            /\ loopPc' = [loopPc EXCEPT ![monitor_thread + 1] = "test"]
    /\ UNCHANGED <<loopPos, logSize, ingested, callerPc>>
    /\ UNCHANGED outsideMonitor

\* stop_monitoring up to the join: running is cleared, and a live thread is
\* joined with timeout=5.
StopMonitoring ==
    /\ callerPc = "idle"
    /\ running
    /\ running' = FALSE
    /\ callerPc' = IF is_alive(monitor_thread) THEN "join" ELSE "idle"
    /\ UNCHANGED <<monitor_thread, loopPc, loopPos, log_positions, logSize,
                   ingested>>
    /\ UNCHANGED outsideMonitor

\* The joined thread has ended.
JoinReturns ==
    /\ callerPc = "join"
    /\ ~is_alive(monitor_thread)
    /\ callerPc' = "idle"
    /\ UNCHANGED <<running, monitor_thread, loopPc, loopPos, log_positions,
                   logSize, ingested>>
    /\ UNCHANGED outsideMonitor

\* The five seconds pass while the thread is in time.sleep(check_interval).
JoinTimesOut ==
    /\ callerPc = "join"
    /\ loopPc[monitor_thread] = "sleep"
    /\ callerPc' = "idle"
    /\ UNCHANGED <<running, monitor_thread, loopPc, loopPos, log_positions,
                   logSize, ingested>>
    /\ UNCHANGED outsideMonitor

\* while self.running
LoopTest(t) ==
    /\ loopPc[t] = "test"
    /\ loopPc' = [loopPc EXCEPT ![t] = IF running THEN "read" ELSE "exited"]
    /\ UNCHANGED <<running, monitor_thread, loopPos, log_positions, logSize,
                   ingested, callerPc>>
    /\ UNCHANGED outsideMonitor

\* monitor_log_file: current_pos = self.log_positions.get(log_path, 0)
LoopReadPosition(t) ==
    /\ loopPc[t] = "read"
    /\ loopPos' = [loopPos EXCEPT ![t] = log_positions]
    /\ loopPc' = [loopPc EXCEPT ![t] = "lines"]
    /\ UNCHANGED <<running, monitor_thread, log_positions, logSize, ingested,
                   callerPc>>
    /\ UNCHANGED outsideMonitor

\* f.seek(current_pos); new_lines = f.readlines(); the position is stored
\* and the new lines are matched and stored.
LoopReadLines(t) ==
    /\ loopPc[t] = "lines"
    /\ LET current_pos == IF logSize < loopPos[t] THEN 0 ELSE loopPos[t]
       IN ingested' = [l \in 1..MaxLines |->
                          IF l > current_pos /\ l <= logSize
                          THEN Min2(ingested[l] + 1, 2) ELSE ingested[l]]
    /\ log_positions' = logSize
    /\ loopPc' = [loopPc EXCEPT ![t] = "sleep"]
    /\ UNCHANGED <<running, monitor_thread, loopPos, logSize, callerPc>>
    /\ UNCHANGED outsideMonitor

\* time.sleep(check_interval) is over.
LoopWakes(t) ==
    /\ loopPc[t] = "sleep"
    /\ loopPc' = [loopPc EXCEPT ![t] = "test"]
    /\ UNCHANGED <<running, monitor_thread, loopPos, log_positions, logSize,
                   ingested, callerPc>>
    /\ UNCHANGED outsideMonitor

NextMonitor ==
    \/ AppendLogLine
    \/ StartMonitoring
    \/ StopMonitoring
    \/ JoinReturns
    \/ JoinTimesOut
    \/ \E t \in 1..MaxLoops :
          \/ LoopTest(t)
          \/ LoopReadPosition(t)
          \/ LoopReadLines(t)
          \/ LoopWakes(t)

SpecMonitor == InitModelLayer /\ [][NextMonitor]_vars

\* ------------------------------------------------------------------------
\* Claims about the analyzer
\* ------------------------------------------------------------------------
Returned == phase = "done"

\* C1: the threat_score of the report of analyze_events and of
\* analyze_events_comprehensive_ai is a number in 0..100, for every event
\* list and every state of the model layer.
C1_ScoreInRange ==
    Returned => /\ ~result.raised
                /\ result.report.threat_score \in 0..100

C1_Witness ==
    /\ Returned
    /\ entry = "analyze_events_comprehensive_ai"
    /\ result.report.ai_analysis.threat_level = "high"
    /\ result.report.ai_comprehensive = "critical"
    /\ DeterministicAnalysis(events).threat_score >= 90
    /\ result.report.threat_score = 100

\* The failed-authentication events of the input and their source IPs.
FailedAuthIdx(evs) == {i \in 1..Len(evs) : evs[i].ev.event_type \in FailedAuthTypes}

OnlyFailedAuthFromOneIp(evs) ==
    /\ EventCount(evs) >= 5
    /\ FailedAuthIdx(evs) = 1..Len(evs)
    /\ evs[1].ev.source_ip # ""
    /\ \A i \in 1..Len(evs) : evs[i].ev.source_ip = evs[1].ev.source_ip

Span(evs) ==
    SetMax({evs[i].ev.timestamp : i \in 1..Len(evs)})
      - SetMin({evs[i].ev.timestamp : i \in 1..Len(evs)})

\* C2: n >= 5 failed-authentication events from one source IP: within 600
\* seconds they give exactly one brute-force entry for that IP, with
\* attempt_count n and severity high for n <= 20 and critical for n > 20;
\* spread over more than 600 seconds they give no entry.
C2_BruteForceOneIp ==
    (Returned /\ OnlyFailedAuthFromOneIp(events)) =>
        LET bf == result.report.brute_force_attempts
            n == EventCount(events)
        IN IF Span(events) <= 600
           THEN /\ Len(bf) = 1
                /\ bf[1].source_ip = events[1].ev.source_ip
                /\ bf[1].attempt_count = n
                /\ bf[1].severity = IF n <= 20 THEN "high" ELSE "critical"
           ELSE bf = << >>

C2_Witness ==
    /\ Returned
    /\ OnlyFailedAuthFromOneIp(events)
    /\ EventCount(events) > 20
    /\ Span(events) = 600
    /\ Len(result.report.brute_force_attempts) = 1
    /\ result.report.brute_force_attempts[1].severity = "critical"

\* Some 10-minute window holds at least 5 failed-authentication events of ip.
HasBruteForceWindow(evs, ip) ==
    LET idx == {i \in FailedAuthIdx(evs) : evs[i].ev.source_ip = ip}
    IN \E i \in idx :
          CountRuns(evs, {j \in idx :
                            /\ evs[j].ev.timestamp >= evs[i].ev.timestamp
                            /\ evs[j].ev.timestamp <= evs[i].ev.timestamp + 600}) >= 5

ReportedIps(bf) == {bf[i].source_ip : i \in 1..Len(bf)}

\* C3: whenever at least 5 failed-authentication events of one source IP lie
\* within one 10-minute window, the report has a brute-force entry for that
\* IP, whatever other failed-authentication events of that IP lie outside.
C3_WindowFlagged ==
    Returned =>
        \A ip \in {events[i].ev.source_ip : i \in 1..Len(events)} \ {""} :
            HasBruteForceWindow(events, ip)
                => ip \in ReportedIps(result.report.brute_force_attempts)

\* C4: both entry points return a report without raising, whose deterministic
\* fields equal those produced with the model layer disabled; a model-layer
\* failure shows only as an error field.
C4_FallbackFields ==
    Returned =>
        LET off == analyze_events(DeterministicAnalysis(events), FALSE, NoCallQuick).report
            r == result.report
        IN /\ ~result.raised
           /\ r.total_events = off.total_events
           /\ r.severity_breakdown = off.severity_breakdown
           /\ r.top_source_ips = off.top_source_ips
           /\ r.brute_force_attempts = off.brute_force_attempts

C4_Witness ==
    /\ Returned
    /\ entry = "analyze_events_comprehensive_ai"
    /\ result.report.ai_error
    /\ result.report.ai_analysis.error
    /\ result.report.brute_force_attempts # << >>
    /\ result.report.total_events > 5


\* ------------------------------------------------------------------------
\* Claims about the model lifecycle
\* ------------------------------------------------------------------------
\* C5: a retraining of a trained model that fails (returns False or raises)
\* leaves is_trained and every object that scoring uses as they were when
\* the retraining started.
C5_FailedRetrainKeepsState ==
    /\ \A t \in Threads :
          (Idle(t) /\ thr[t].trained \in {"false", "raised"} /\ pre[t].is_trained)
              => ad = pre[t]
    /\ (tcResult \in {"false", "raised"} /\ tcPre.is_trained) => tc = tcPre

\* C6: a detection call that runs while the same model is retrained scores
\* with a scaler, a forest and baseline statistics of one and the same
\* training.
C6_DetectUsesOneTraining ==
    \A t \in Threads :
        thr[t].result = "scored" =>
            /\ thr[t].used.forest = thr[t].used.scaler
            /\ thr[t].used.baseline \in {0, thr[t].used.scaler}

\* Every object a scoring call uses is there and fitted.
ScoringObjectsLoaded(a) ==
    /\ a.isolation_forest.fitted
    /\ a.scaler # 0
    /\ a.dbscan.gen # 0
    /\ a.baseline_features # 0

\* C7: after construction, whatever files are present, missing or
\* unreadable, is_trained is true only if the isolation scorer, the scaler,
\* the cluster model and the baseline statistics have all been loaded.
C7_TrainedOnlyIfLoaded ==
    fresh => (ad.is_trained => ScoringObjectsLoaded(ad))

\* C8: a fresh instance constructed on the directory a successful training
\* saved to is trained, and its detect_anomalies completes and scores with
\* the objects of that training.
C8_RoundTrip ==
    origin > 0 =>
        /\ ad.is_trained
        /\ \A t \in Threads :
              thr[t].result \in {"scored", "raised"} =>
                  /\ thr[t].result = "scored"
                  /\ thr[t].used.scaler = origin
                  /\ thr[t].used.forest = origin
                  /\ thr[t].found => thr[t].used.baseline = origin

\* C10: train_models with fewer than 100 historical events returns False
\* without raising and leaves is_trained, the scaler, the isolation scorer
\* and the baseline statistics unchanged.
C10_RefusesUnder100 ==
    \A t \in Threads :
        (thr[t].trained # "none" /\ thr[t].fetched < 100) =>
            /\ thr[t].trained = "false"
            /\ ad = pre[t]

C10_Witness ==
    /\ thr["fg"].op = "idle"
    /\ thr["fg"].result = "false"
    /\ thr["fg"].fetched = 99
    /\ pre["fg"].is_trained
    /\ ad.is_trained
    /\ ad.scaler > 0


\* C9: in every scoring call that follows a successful fit, the feature
\* vector handed to the scaler has the same feature names in the same order
\* as the training matrix of that fit; a PredictiveEngine forecast row holds
\* the calendar and count features and every lag and rolling feature used
\* at training.
C9_SameFeaturesAsTraining ==
    (peOut.value \in {"forecast", "raised"} /\ peOut.hours_ahead > 0) =>
        /\ peOut.value = "forecast"
        /\ peOut.vector = peOut.fit


\* ------------------------------------------------------------------------
\* Claims about train_all_models
\* ------------------------------------------------------------------------
\* C11: in every call of train_all_models the training of each of the four
\* families is attempted exactly once, also after an earlier family returned
\* failure or raised, and the call returns.
C11_EachFamilyOnce ==
    /\ \A f \in FamilySet : mgr.attempts[f] <= 1
    /\ (mgr.pc = "finish" \/ mgr.returned) =>
          \A f \in FamilySet : mgr.attempts[f] = 1

C11_Witness ==
    /\ mgr.returned
    /\ "threat_classifier" \in mgr.errors
    /\ mgr.models_trained["behavioral_analyzer"] = "true"
    /\ mgr.models_trained["predictive_engine"] = "false"
    /\ \A f \in FamilySet : mgr.attempts[f] = 1

\* C12: the result of train_all_models has in models_trained one entry with
\* a success flag for each of the four families, also for a training that
\* raised, and overall_success is true exactly when all four report success.
C12_ResultMap ==
    mgr.returned =>
        /\ \A f \in FamilySet : mgr.models_trained[f] \in {"true", "false"}
        /\ mgr.overall_success <=>
              \A f \in FamilySet : mgr.models_trained[f] = "true"


\* ------------------------------------------------------------------------
\* Claims about the pattern matcher
\* ------------------------------------------------------------------------
\* The rules of the list that are enabled and match the line, in list order.
RECURSIVE RulesHit(_, _, _)
RulesHit(rules, line, i) ==
    IF i > Len(rules) THEN << >>
    ELSE (IF rules[i].enabled /\ re_search(rules[i].regex_pattern, line).ok
          THEN <<i>> ELSE << >>) \o RulesHit(rules, line, i + 1)

HasGroup(rule, g) == g \in GroupNames(rule.regex_pattern)

FieldOk(rule, line, g, value) ==
    IF HasGroup(rule, g)
    THEN value = re_search(rule.regex_pattern, line).groupdict[g]
    ELSE value = ""

AdminLine ==
    <<"Failed", "password", "for", "admin", "from", "192.168.1.100", "port",
      "22", "ssh2">>

\* C13: match_patterns returns exactly one event for each enabled rule that
\* matches the line without regard to case, none for the other rules, in
\* rule order; the event has the lower-cased, underscore-joined name of its
\* rule as type, the rule's severity, and the captures of the groups ip and
\* username ('' for a rule without the group).  Under the default rules the
\* line "Failed password for admin from 192.168.1.100 port 22 ssh2" gives
\* one event: ssh_failed_login, 192.168.1.100, admin, medium.
C13_OneEventPerMatchingRule ==
    pmOut.op = "match" =>
        LET hit == RulesHit(patterns, pmOut.line, 1)
        IN /\ Len(pmOut.events) = Len(hit)
           /\ \A k \in 1..Len(hit) :
                 LET e == pmOut.events[k]
                     rule == patterns[hit[k]]
                 IN /\ e.rule = hit[k]
                    /\ e.event_type = [j \in 1..Len(rule.name) |-> Lower(rule.name[j])]
                    /\ e.severity = rule.severity
                    /\ FieldOk(rule, pmOut.line, "ip", e.source_ip)
                    /\ FieldOk(rule, pmOut.line, "username", e.username)
           /\ (patterns = _initialize_patterns /\ pmOut.line = AdminLine) =>
                 pmOut.events =
                     << [event_type |-> <<"ssh", "failed", "login">>,
                         source_ip |-> "192.168.1.100", username |-> "admin",
                         severity |-> "medium", rule |-> 1] >>

\* A line in lower case is matched by two enabled rules while a matching
\* rule is disabled, and one of the two has no group username.
C13_Witness ==
    /\ pmOut.op = "match"
    /\ Len(pmOut.events) = 2
    /\ pmOut.events[1].username = ""
    /\ pmOut.events[1].event_type = <<"failed", "root", "login">>
    /\ pmOut.events[2].username = "root"
    /\ \E i \in 1..Len(patterns) :
          /\ ~patterns[i].enabled
          /\ re_search(patterns[i].regex_pattern, pmOut.line).ok

\* C14: once disable_pattern(N) was called, no event comes from a rule named
\* N until enable_pattern(N) is called or a rule named N is added; once
\* enable_pattern(N) was called, a line that matches a rule named N gives
\* that rule's event.
C14_DisabledNameSilent ==
    pmOut.op = "match" =>
        /\ \A name \in disabledSince :
              \A k \in 1..Len(pmOut.events) :
                 patterns[pmOut.events[k].rule].name # name
        /\ \A name \in enabledSince :
              \A i \in 1..Len(patterns) :
                 (/\ patterns[i].name = name
                  /\ re_search(patterns[i].regex_pattern, pmOut.line).ok)
                 => \E k \in 1..Len(pmOut.events) : pmOut.events[k].rule = i


\* ------------------------------------------------------------------------
\* Claims about the behavioural baselines
\* ------------------------------------------------------------------------
\* C15: analyze_behavioral_anomalies leaves the user baselines, the
\* source-IP baselines and the system baseline as they were before the call.
C15_AnalysisKeepsBaselines ==
    baOut.op = "analysis" => ba = baOut.before

KeysWithAtLeast(counter, least) == {k \in DOMAIN counter : counter[k] >= least}

\* C16: after a retrain over a snapshot there is a user baseline exactly for
\* the users with at least 10 events in it, a source baseline exactly for the
\* source IPs with at least 5 events in it, and a system baseline exactly
\* when it has at least 50 events: nothing of an earlier training is left.
C16_RetrainRebuildsWholesale ==
    baOut.op = "retrain" =>
        /\ DOMAIN ba.user_baselines = KeysWithAtLeast(UserCounts(baOut.batch), 10)
        /\ DOMAIN ba.ip_baselines = KeysWithAtLeast(IpCounts(baOut.batch), 5)
        /\ ba.system_baseline.present <=> EventCount(baOut.batch) >= 50

\* The three criteria for the events evs of one source IP.
FlagCriteria(evs) ==
    LET n == EventCount(evs)
        stamps == {evs[i].ev.timestamp : i \in 1..Len(evs)}
        usernames == {evs[i].ev.username : i \in 1..Len(evs)} \ {""}
        critical ==
            CountRuns(evs, {i \in 1..Len(evs) : evs[i].ev.severity = "critical"})
    IN \/ n > 10 /\ SetMax(stamps) - SetMin(stamps) <= 60
       \/ Cardinality(usernames) > 5
       \/ 2 * critical > n

\* C17: a source IP of the batch that had no baseline gets a
\* suspicious_new_ip finding exactly when its events are more than 10 within
\* 60 seconds, or name more than 5 users, or are critical for more than half.
C17_NewIpFlaggedIff ==
    baOut.op = "analysis" =>
        \A ip \in DOMAIN IpCounts(baOut.batch) \ DOMAIN baOut.before.ip_baselines :
            ip \in baOut.suspicious_new_ip
                <=> FlagCriteria(EventsOfIp(baOut.batch, ip))


\* ------------------------------------------------------------------------
\* Claims about the time windows
\* ------------------------------------------------------------------------
WindowStamps == {tsEvents[i].timestamp : i \in 1..Len(tsEvents)}

\* Half hours between the earliest and the latest event.
HalfHoursApart == SetMax(WindowStamps) - SetMin(WindowStamps)

\* C18: for events whose earliest and latest timestamps are T hours apart
\* the frame has ceil(T) + 1 rows.
C18_CeilPlusOneRows ==
    (tsOut.done /\ tsEvents # << >>) =>
        Len(tsOut.rows) = (HalfHoursApart + WindowWidth - 1) \div WindowWidth + 1

ZeroRow(row) ==
    /\ row.total_events = 0
    /\ row.critical_events = 0
    /\ row.high_events = 0
    /\ row.medium_events = 0
    /\ row.low_events = 0
    /\ row.severity_score = 0

InWindow(t, row) ==
    t >= row.timestamp /\ t < row.timestamp + WindowWidth

RECURSIVE SumTotalEvents(_)
SumTotalEvents(rows) ==
    IF rows = << >> THEN 0
    ELSE Head(rows).total_events + SumTotalEvents(Tail(rows))

\* C19: the first row starts at the earliest timestamp, each next row one
\* width later; a window without events is an all-zero row; every event is
\* in the window of exactly one row, each row counts the events of its
\* window, and the total_events of the rows add up to the number of events.
C19_ContiguousWindows ==
    (tsOut.done /\ tsEvents # << >>) =>
        LET rows == tsOut.rows
        IN /\ Len(rows) >= 1
           /\ rows[1].timestamp = SetMin(WindowStamps)
           /\ \A k \in 1..(Len(rows) - 1) :
                 rows[k + 1].timestamp = rows[k].timestamp + WindowWidth
           /\ \A k \in 1..Len(rows) :
                 LET inside == {i \in 1..Len(tsEvents) :
                                   InWindow(tsEvents[i].timestamp, rows[k])}
                 IN /\ rows[k].total_events = Cardinality(inside)
                    /\ inside = {} => ZeroRow(rows[k])
           /\ \A i \in 1..Len(tsEvents) :
                 Cardinality({k \in 1..Len(rows) :
                                 InWindow(tsEvents[i].timestamp, rows[k])}) = 1
           /\ SumTotalEvents(rows) = Len(tsEvents)

\* Events out of time order, an empty window between two others, and the
\* latest event at the very start of the last window.
C19_Witness ==
    /\ tsOut.done
    /\ Len(tsOut.rows) = 3
    /\ ZeroRow(tsOut.rows[2])
    /\ tsOut.rows[3].total_events = 1
    /\ Len(tsEvents) = 3
    /\ tsEvents[1].timestamp > tsEvents[2].timestamp
    /\ SetMax(WindowStamps) = tsOut.rows[3].timestamp


\* ------------------------------------------------------------------------
\* Claim about the deterministic threat score
\* ------------------------------------------------------------------------
SeverityCountOf(breakdown, sev) ==
    IF sev \in DOMAIN breakdown THEN breakdown[sev] ELSE 0

\* The severity-weighted sum, capped as a whole.
WeightedSumCapped(breakdown) ==
    Min2(40, 25 * SeverityCountOf(breakdown, "critical")
               + 15 * SeverityCountOf(breakdown, "high")
               + 5 * SeverityCountOf(breakdown, "medium")
               + SeverityCountOf(breakdown, "low"))

\* C20: without the model layer the threat_score of the report is
\* min(100, V + min(40, 25*critical + 15*high + 5*medium + low) + min(30, 10*B))
\* with V the volume bonus and B the number of brute-force entries: the
\* severity-weighted part adds at most 40.
C20_SeverityPartAtMost40 ==
    (Returned /\ ~EnableAi(aiState)) =>
        LET report == result.report
        IN report.threat_score =
              Min2(100, VolumeBonus(report.total_events)
                          + WeightedSumCapped(report.severity_breakdown)
                          + Min2(30, 10 * Len(report.brute_force_attempts)))


\* ------------------------------------------------------------------------
\* Claims about the score as a function of the event set
\* ------------------------------------------------------------------------
\* 25*critical + 15*high + 5*medium + 1*low
WeightedSum(breakdown) ==
    25 * SeverityCountOf(breakdown, "critical")
      + 15 * SeverityCountOf(breakdown, "high")
      + 5 * SeverityCountOf(breakdown, "medium")
      + SeverityCountOf(breakdown, "low")

\* What the comparison of two event sets looks at.
ScoreSummary(evs) ==
    LET a == DeterministicAnalysis(evs)
    IN [total_events |-> a.total_events,
        weighted |-> WeightedSum(a.severity_breakdown),
        brute_force |-> Len(a.brute_force_attempts),
        threat_score |-> a.threat_score]

\* Every event list the analyzer can be handed, summarised.
AllScoreSummaries ==
    {ScoreSummary(evs) : evs \in UNION {[1..n -> Batches] : n \in 0..MaxBatches}}

\* C21: of two event sets with the same number of brute-force entries,
\* (a) with the same event count the one with the larger severity-weighted
\* sum never has the smaller deterministic score, and (b) with the same
\* severity-weighted sum the one with more events never has the smaller one.
C21_ScoreMonotonic ==
    Returned =>
        LET mine == ScoreSummary(events)
        IN \A other \in AllScoreSummaries :
              other.brute_force = mine.brute_force =>
                 /\ (/\ other.total_events = mine.total_events
                     /\ other.weighted >= mine.weighted)
                    => other.threat_score >= mine.threat_score
                 /\ (/\ other.weighted = mine.weighted
                     /\ other.total_events >= mine.total_events)
                    => other.threat_score >= mine.threat_score


\* The threat level of the model insight of a report: that of the
\* comprehensive analysis where the report has one, else that of the quick one.
InsightLevel(report) ==
    IF report.ai_comprehensive # "absent" THEN report.ai_comprehensive
    ELSE report.ai_analysis.threat_level

\* C22: the threat_score of the report of either entry point is
\* min(100, deterministic score + b) with b = 20 for a critical model
\* insight, 10 for a high one and 0 otherwise, added once.
C22_BoostOnce ==
    Returned =>
        result.report.threat_score =
            Min2(100, DeterministicAnalysis(events).threat_score
                        + (IF InsightLevel(result.report) = "critical" THEN 20
                           ELSE IF InsightLevel(result.report) = "high" THEN 10
                           ELSE 0))


\* C23: analyze_events on the empty event list returns threat_score 0, no
\* brute-force entry and no recommendation, in every state of the model layer.
C23_EmptyListReport ==
    (Returned /\ entry = "analyze_events" /\ events = << >>) =>
        /\ ~result.raised
        /\ result.report.threat_score = 0
        /\ result.report.brute_force_attempts = << >>
        /\ result.report.recommendations = << >>

C23_Witness ==
    /\ Returned
    /\ entry = "analyze_events"
    /\ events = << >>
    /\ aiState = "trained"
    /\ result.report.total_events = 0


\* ------------------------------------------------------------------------
\* Claim about the IP reputation
\* ------------------------------------------------------------------------
SeverityPoints(severity) ==
    CASE severity = "low" -> 1 [] severity = "medium" -> 5
      [] severity = "high" -> 10 [] severity = "critical" -> 20

RECURSIVE PointsFor(_, _)
PointsFor(made, ip) ==
    IF made = << >> THEN 0
    ELSE (IF Head(made).ip = ip THEN SeverityPoints(Head(made).severity) ELSE 0)
         + PointsFor(Tail(made), ip)

\* C24: the stored reputation_score of every IP is the sum, over the calls
\* made for that IP, of the points low 1, medium 5, high 10, critical 20; an
\* IP no call was made for has no row.
C24_ReputationIsSum ==
    /\ \A ip \in ReputationIps :
          StoredOrZero(ipReputation, ip, "reputation_score") = PointsFor(repCalls, ip)
    /\ DOMAIN ipReputation = {repCalls[i].ip : i \in 1..Len(repCalls)}

\* high then critical for one IP, with a call for the other IP in between.
C24_Witness ==
    /\ Len(repCalls) = 3
    /\ repCalls[1] = [ip |-> "192.168.1.100", severity |-> "high"]
    /\ repCalls[2].ip = "10.0.0.1"
    /\ repCalls[3] = [ip |-> "192.168.1.100", severity |-> "critical"]
    /\ ipReputation["192.168.1.100"].reputation_score = 30


\* ------------------------------------------------------------------------
\* Claim about the aggregated threat level
\* ------------------------------------------------------------------------
Fired(category, passes(_)) ==
    \E i \in 1..Len(insFindings) :
        insFindings[i].category = category /\ passes(insFindings[i].value)

Over80(v) == v > 80

Over70(v) == v > 70

IsCritical(v) == v = "critical"

AnyValue(v) == TRUE

\* The number of the four categories that fired.
CategoriesFired ==
    Cardinality({c \in {"anomaly", "classification", "behavioral", "alert"} :
        CASE c = "anomaly" -> Fired(c, Over80)
          [] c = "classification" -> Fired(c, Over70)
          [] c = "behavioral" -> Fired(c, IsCritical)
          [] c = "alert" -> Fired(c, AnyValue)})

\* C25: with k of the four categories fired the overall threat level is
\* critical for k >= 3, high for k = 2, medium for k = 1 and low for k = 0,
\* the confidence_score is min(level score, 95) for the level scores
\* 80/60/40/20, and a category counts once however many findings it has.
C25_LevelStepsWithCategories ==
    insOut.done =>
        /\ insOut.risk_factors = CategoriesFired
        /\ insOut.overall_threat_level =
              (CASE CategoriesFired >= 3 -> "critical"
                 [] CategoriesFired = 2 -> "high"
                 [] CategoriesFired = 1 -> "medium"
                 [] CategoriesFired = 0 -> "low")
        /\ insOut.confidence_score =
              Min2(95, CASE CategoriesFired >= 3 -> 80
                         [] CategoriesFired = 2 -> 60
                         [] CategoriesFired = 1 -> 40
                         [] CategoriesFired = 0 -> 20)

\* Two anomalies over 80 and two critical behavioural anomalies: two
\* categories, four findings.
C25_Witness ==
    /\ insOut.done
    /\ Len(high_confidence_anomalies(insFindings)) = 2
    /\ Len(critical_behavioral(insFindings)) = 2
    /\ insOut.overall_threat_level = "high"
    /\ insOut.confidence_score = 60


\* ------------------------------------------------------------------------
\* Claim about the predictive recommendations
\* ------------------------------------------------------------------------
OffHours(hour) == hour >= 22 \/ hour < 6

\* C26: when some prediction is for an hour of day >= 22 or < 6 and has a
\* timing risk above 0.7, the recommendations include the off-hours item.
C26_OffHoursItem ==
    (/\ recOut.done
     /\ \E i \in 1..Len(predictions) :
           /\ OffHours(predictions[i].hour)
           /\ predictions[i].timing_risk_score > 7)
    => \E k \in 1..Len(recOut.recommendations) :
           recOut.recommendations[k] = "off_hours_monitoring"


\* ------------------------------------------------------------------------
\* Claim about the training split
\* ------------------------------------------------------------------------
\* C27: the regressors are fitted on the chronologically first 80% of the
\* training rows only, and the metrics are computed on the last 20%, no row
\* of which was used for the fit.
C27_ChronologicalSplit ==
    splitOut.trained =>
        /\ splitOut.fitted_on = 1..((splitOut.rows * 8) \div 10)
        /\ splitOut.tested_on = (((splitOut.rows * 8) \div 10) + 1)..splitOut.rows
        /\ splitOut.fitted_on \cap splitOut.tested_on = {}


\* ------------------------------------------------------------------------
\* Claim about the monitoring loop
\* ------------------------------------------------------------------------
\* C28: over any sequence of start_monitoring and stop_monitoring calls at
\* most one monitoring loop thread is alive at any time, and no log line is
\* read as new by two loops.
C28_OneLoop ==
    /\ Cardinality({t \in 1..MaxLoops : is_alive(t)}) <= 1
    /\ \A l \in 1..MaxLines : ingested[l] <= 1


\* ------------------------------------------------------------------------
\* Claim about scoring
\* ------------------------------------------------------------------------
ScoringSteps == {"D_scale", "D_forest", "D_dbscan", "D_classify"}

\* A step of a detect_anomalies call past its is_trained test.
ScoringStepOf(t) ==
    /\ thr[t].op = "detect"
    /\ thr[t].pc \in ScoringSteps
    /\ thr'[t] # thr[t]

\* C29: a detect_anomalies call on a trained detector leaves the scaler,
\* the forest, the cluster model and the baseline statistics as they were.
C29_ScoringKeepsModels ==
    [][(\E t \in Threads : ScoringStepOf(t)) => ad' = ad]_vars

\* ------------------------------------------------------------------------
\* Claims about the severities of behavioural findings
\* ------------------------------------------------------------------------
\* What quick_analysis can be told about a call whose behavioural findings
\* carry severity s.
QuickOutcomesWith(s) ==
    {q \in QuickOutcomes(TRUE) \cup QuickOutcomes(FALSE) : q.behavioral = s}

\* C30: every finding of analyze_behavioral_anomalies has severity medium
\* or high; with such findings the critical behavioural category of the
\* aggregator stays empty, quick_analysis does not return threat_level
\* critical and analyze_events does not add 20.
C30_NoCriticalFinding ==
    baOut.op = "analysis" =>
        \A f \in baOut.findings :
            /\ f.severity \in {"medium", "high"}
            /\ critical_behavioral(
                   <<[category |-> "behavioral", value |-> f.severity]>>) = << >>
            /\ \A q \in QuickOutcomesWith(f.severity) :
                   /\ quick_analysis(q).threat_level # "critical"
                   /\ QuickBoost(quick_analysis(q).threat_level) # 20

\* An analysis has flagged an IP without baseline, and quick_analysis can
\* be told of a finding of that severity.
C30_Witness ==
    /\ baOut.op = "analysis"
    /\ \E f \in baOut.findings :
          /\ f.type = "suspicious_new_ip"
          /\ QuickOutcomesWith(f.severity) # {}

====
